---------------------------- MODULE Spec2Model ----------------------------
(***************************************************************************)
(* A model of jjazy's repository handle (src/rust/src/lib.rs): the handle  *)
(* holds one immutable repository snapshot (handle.repo) and the name of   *)
(* the workspace it was opened in; workspaceAdd, workspaceForget and       *)
(* setBookmark build a transaction on that snapshot and, when it commits,  *)
(* replace the snapshot.  The graph walks (prefix resolution, the          *)
(* immutability walk, the backwards-move walk) are operators that follow   *)
(* the loops of the source step by step.                                   *)
(***************************************************************************)
EXTENDS Integers, Sequences, FiniteSets, TLC

VARIABLES
    store,              \* the commit store: commit id -> [parents, tree]
    repo,               \* handle.repo: the snapshot the handle holds
    current_workspace,  \* handle.current_workspace
    fs,                 \* the destination directories workspaceAdd looks at
    ops,                \* number of operations written to the operation log
    call,               \* the call made last (its name and arguments)
    result,             \* what that call returned: "ok" or the kind of error
    out,                \* the payload that call returned (reads only)
    prev                \* the snapshot the handle held when that call began

vars == <<store, repo, current_workspace, fs, ops, call, result, out, prev>>

----------------------------------------------------------------------------
(* Bounds of the model *)

\* number of hex digits of a commit id
HexLen == 4
\* number of operations the log may hold before the mutations stop
MaxOps == 2
\* length of the linear history of the deep-chain repository
DeepChainLen == 105
\* number of rungs of the merge ladder of the deep-ladder repository
LadderRungs == 52
\* number of commits of the linear history of the huge repository
HugeChainLen == 10000
\* the longest text, in lines, of the repositories of texts
MaxLines == 3

(* Program constants *)

MAX_REVISION_SEARCH_DEPTH == 10000
ImmutableMaxDepth == 200
BackwardsMaxDepth == 100
max_revisions == 100
ShortIdLen == 12

----------------------------------------------------------------------------
(* Commit ids and their hex form *)

\* Option::None of a commit search
NoCommit == 0 - 1

RECURSIVE Pow16(_)
Pow16(n) == IF n = 0 THEN 1 ELSE 16 * Pow16(n - 1)

\* CommitId::hex(): the id printed as HexLen hex digits, most significant first
Hex(c) == [i \in 1..HexLen |-> (c \div Pow16(HexLen - i)) % 16]

\* the commit id a hex string denotes
RECURSIVE FromHex(_)
FromHex(h) ==
    IF h = <<>> THEN 0
    ELSE 16 * FromHex(SubSeq(h, 1, Len(h) - 1)) + h[Len(h)]

\* a slip: str::contains
StartsWithAnywhere(hex, spec) ==
    \E k \in 0..(Len(hex) - Len(spec)) :
        \A i \in 1..Len(spec) : hex[k + i] = spec[i]

\* str::starts_with
StartsWith(hex, spec) ==
    /\ Len(spec) <= Len(hex)
    /\ \A i \in 1..Len(spec) : hex[i] = spec[i]

\* store.root_commit_id(): the all-zero id
RootCommitId == FromHex(<<0, 0, 0, 0>>)

----------------------------------------------------------------------------
(* The store *)

\* store.get_commit(id) is Ok
Readable(st, c) == c \in DOMAIN st

\* commit.parent_ids()
ParentIds(st, c) == st[c].parents

\* the elements of a sequence
Range(s) == {s[i] : i \in 1..Len(s)}

\* the elements of s that are not in visited, in order
RECURSIVE SelectNotIn(_, _)
SelectNotIn(s, visited) ==
    IF s = <<>> THEN <<>>
    ELSE IF s[1] \in visited THEN SelectNotIn(Tail(s), visited)
         ELSE <<s[1]>> \o SelectNotIn(Tail(s), visited)

----------------------------------------------------------------------------
(* The View *)

\* workspace names in ascending (byte-wise) order, the order of the View's map
WorkspaceNames == <<"default", "second", "third">>

BookmarkNames == <<"dev", "main">>

NameIndex(names, n) == CHOOSE i \in 1..Len(names) : names[i] = n

\* RefTarget: absent, normal(c), or a conflict with several added ids
Absent == [kind |-> "absent", ids |-> <<>>]
Normal(c) == [kind |-> "normal", ids |-> <<c>>]
Conflict(cs) == [kind |-> "conflict", ids |-> cs]

\* view.wc_commit_ids() iterated: the registered workspaces' commit ids in
\* name order
RECURSIVE WcCommitIdsFrom(_, _)
WcCommitIdsFrom(wc, i) ==
    IF i > Len(WorkspaceNames) THEN <<>>
    ELSE IF WorkspaceNames[i] \in DOMAIN wc
         THEN <<wc[WorkspaceNames[i]]>> \o WcCommitIdsFrom(wc, i + 1)
         ELSE WcCommitIdsFrom(wc, i + 1)

WcCommitIds(r) == WcCommitIdsFrom(r.wc, 1)


\* view.local_bookmarks(): the names whose target is present, in name order
RECURSIVE LocalBookmarksFrom(_, _)
LocalBookmarksFrom(bm, i) ==
    IF i > Len(BookmarkNames) THEN <<>>
    ELSE IF bm[BookmarkNames[i]].kind # "absent"
         THEN <<BookmarkNames[i]>> \o LocalBookmarksFrom(bm, i + 1)
         ELSE LocalBookmarksFrom(bm, i + 1)

LocalBookmarks(r) == LocalBookmarksFrom(r.bookmarks, 1)

\* the added ids of all remote bookmarks, in the View's order
RECURSIVE RemoteHeadsFrom(_, _)
RemoteHeadsFrom(remote, i) ==
    IF i > Len(remote) THEN <<>>
    ELSE remote[i].ids \o RemoteHeadsFrom(remote, i + 1)

RemoteHeads(r) == RemoteHeadsFrom(r.remote, 1)

----------------------------------------------------------------------------
(* Prefix resolution *)

\* The state of a graph walk: the stack, the ids seen, the match (if any),
\* and whether the loop has been left
Walk(to_visit, visited, found, done) ==
    [to_visit |-> to_visit, visited |-> visited, found |-> found, done |-> done]

\* Vec::pop: the last element comes first
Top(stack) == stack[Len(stack)]
Pop(stack) == SubSeq(stack, 1, Len(stack) - 1)

\* One turn of the loop of jj_set_bookmark that finds the target commit (a
\* stack walk from the workspace heads, without a depth limit).  A commit
\* whose id matches but which the store cannot read is skipped and not
\* expanded.
FindTargetTurn(st, revision_str, w) ==
    IF w.done THEN w
    ELSE IF w.to_visit = <<>> THEN [w EXCEPT !.done = TRUE]
    ELSE LET commit_id == Top(w.to_visit)
             rest == Pop(w.to_visit)
             visited == w.visited \cup {commit_id}
         IN  IF commit_id \in w.visited
             THEN [w EXCEPT !.to_visit = rest]
             ELSE IF StartsWith(Hex(commit_id), revision_str)
             THEN IF Readable(st, commit_id)
                  THEN Walk(rest, visited, commit_id, TRUE)
                  ELSE Walk(rest, visited, NoCommit, FALSE)
             ELSE IF Readable(st, commit_id)
             THEN Walk(rest \o SelectNotIn(ParentIds(st, commit_id), visited),
                       visited, NoCommit, FALSE)
             ELSE Walk(rest, visited, NoCommit, FALSE)

\* n turns of that loop (none once the loop is left)
RECURSIVE FindTargetTurns(_, _, _, _)
FindTargetTurns(st, revision_str, w, n) ==
    IF n = 0 THEN w
    ELSE IF n = 1 THEN FindTargetTurn(st, revision_str, w)
    ELSE LET mid == FindTargetTurns(st, revision_str, w, n \div 2)
         IN  IF mid.done THEN mid
             ELSE FindTargetTurns(st, revision_str, mid, n - n \div 2)

\* the loop run until it is left
RECURSIVE FindTargetLoop(_, _, _, _)
FindTargetLoop(st, revision_str, w, n) ==
    LET t == FindTargetTurns(st, revision_str, w, n)
    IN  IF t.done THEN t ELSE FindTargetLoop(st, revision_str, t, 2 * n)

FindTargetCommit(st, r, revision_str) ==
    FindTargetLoop(st, revision_str,
                   Walk(WcCommitIds(r), {}, NoCommit, FALSE), 8).found

\* One turn of the loop of resolve_revision_specs for one spec: the same
\* walk, left once MAX_REVISION_SEARCH_DEPTH commits are visited; a match
\* is returned without reading the commit.
ResolveSpecTurn(st, spec, w) ==
    IF w.done THEN w
    ELSE IF w.to_visit = <<>> THEN [w EXCEPT !.done = TRUE]
    ELSE LET commit_id == Top(w.to_visit)
             rest == Pop(w.to_visit)
             visited == w.visited \cup {commit_id}
         IN  IF Cardinality(w.visited) >= MAX_REVISION_SEARCH_DEPTH
             THEN [w EXCEPT !.to_visit = rest, !.done = TRUE]
             ELSE IF commit_id \in w.visited
             THEN [w EXCEPT !.to_visit = rest]
             ELSE IF StartsWith(Hex(commit_id), spec)
             THEN Walk(rest, visited, commit_id, TRUE)
             ELSE IF Readable(st, commit_id)
             THEN Walk(rest \o SelectNotIn(ParentIds(st, commit_id), visited),
                       visited, NoCommit, FALSE)
             ELSE Walk(rest, visited, NoCommit, FALSE)

RECURSIVE ResolveSpecTurns(_, _, _, _)
ResolveSpecTurns(st, spec, w, n) ==
    IF n = 0 THEN w
    ELSE IF n = 1 THEN ResolveSpecTurn(st, spec, w)
    ELSE LET mid == ResolveSpecTurns(st, spec, w, n \div 2)
         IN  IF mid.done THEN mid
             ELSE ResolveSpecTurns(st, spec, mid, n - n \div 2)

RECURSIVE ResolveSpecLoop(_, _, _, _)
ResolveSpecLoop(st, spec, w, n) ==
    LET t == ResolveSpecTurns(st, spec, w, n)
    IN  IF t.done THEN t ELSE ResolveSpecLoop(st, spec, t, 2 * n)

ResolveSpec(st, r, spec) ==
    ResolveSpecLoop(st, spec, Walk(WcCommitIds(r), {}, NoCommit, FALSE), 8).found

\* resolve_revision_specs: every spec resolved in turn; the first one that
\* fails fails the whole call (<<NoCommit>> stands for the Err)
RECURSIVE ResolveRevisionSpecs(_, _, _)
ResolveRevisionSpecs(st, r, specs) ==
    IF specs = <<>> THEN <<>>
    ELSE LET id == ResolveSpec(st, r, specs[1])
             more == ResolveRevisionSpecs(st, r, Tail(specs))
         IN  IF id = NoCommit \/ more = <<NoCommit>>
             THEN <<NoCommit>>
             ELSE <<id>> \o more

----------------------------------------------------------------------------
(* Ancestry checks of jj_set_bookmark *)

\* One turn of the loop both checks run (for _ in 0..max_depth): it pops
\* one id; a turn that pops an id already checked is spent without looking
\* at a commit; parents are pushed without a visited test.  `found` is
\* the target once it is popped.
AncestryTurn(st, target, w) ==
    IF w.done THEN w
    ELSE IF w.to_visit = <<>> THEN [w EXCEPT !.done = TRUE]
    ELSE LET commit_id == Top(w.to_visit)
             rest == Pop(w.to_visit)
             checked == w.visited \cup {commit_id}
         IN  IF commit_id \in w.visited
             THEN [w EXCEPT !.to_visit = rest]
             ELSE IF commit_id = target
             THEN Walk(rest, checked, commit_id, TRUE)
             ELSE IF Readable(st, commit_id)
             THEN Walk(rest \o ParentIds(st, commit_id), checked, NoCommit, FALSE)
             ELSE Walk(rest, checked, NoCommit, FALSE)

\* n turns of that loop (none once the loop is left)
RECURSIVE AncestryTurns(_, _, _, _)
AncestryTurns(st, target, w, n) ==
    IF n = 0 THEN w
    ELSE IF n = 1 THEN AncestryTurn(st, target, w)
    ELSE LET mid == AncestryTurns(st, target, w, n \div 2)
         IN  IF mid.done THEN mid
             ELSE AncestryTurns(st, target, mid, n - n \div 2)

\* the loop: max_depth turns from the given heads; TRUE iff the target was
\* popped
AncestryLoop(st, heads, target, max_depth) ==
    AncestryTurns(st, target, Walk(heads, {}, NoCommit, FALSE), max_depth).found
        = target

\* a slip: the walk starts from the workspace heads
IsImmutableWalkFromWorkspaces(st, r, target) ==
    /\ WcCommitIds(r) # <<>>
    /\ AncestryLoop(st, WcCommitIds(r), target, ImmutableMaxDepth)

\* is_immutable of jj_set_bookmark, after the root test: the target is
\* found walking back from the remote bookmark heads
IsImmutableWalk(st, r, target) ==
    /\ RemoteHeads(r) # <<>>
    /\ AncestryLoop(st, RemoteHeads(r), target, ImmutableMaxDepth)

\* a slip: only the current target and one of its parents are looked at
IsBackwardsWalkParentOnly(st, r, ref_name, target) ==
    /\ r.bookmarks[ref_name].kind = "normal"
    /\ Readable(st, r.bookmarks[ref_name].ids[1])
    /\ AncestryLoop(st, <<r.bookmarks[ref_name].ids[1]>>, target, 2)

\* a slip: the walk starts from the targets of all the bookmarks
IsBackwardsWalkAllBookmarks(st, r, ref_name, target) ==
    /\ r.bookmarks[ref_name].kind = "normal"
    /\ Readable(st, r.bookmarks[ref_name].ids[1])
    /\ \E b \in DOMAIN r.bookmarks :
           /\ r.bookmarks[b].kind = "normal"
           /\ AncestryLoop(st, <<r.bookmarks[b].ids[1]>>, target, BackwardsMaxDepth)

\* is_backwards of jj_set_bookmark: the bookmark has a normal target that
\* the store can read, and the new target is found walking back from it
IsBackwardsWalk(st, r, ref_name, target) ==
    /\ r.bookmarks[ref_name].kind = "normal"
    /\ Readable(st, r.bookmarks[ref_name].ids[1])
    /\ AncestryLoop(st, <<r.bookmarks[ref_name].ids[1]>>, target, BackwardsMaxDepth)

----------------------------------------------------------------------------
(* Repositories a handle may be opened on *)

Commit(parents, tree) == [parents |-> parents, tree |-> tree]

Snapshot(op, wc, bookmarks, remote) ==
    [op |-> op, wc |-> wc, bookmarks |-> bookmarks, remote |-> remote]

IdA == FromHex(<<0, 10, 1, 1>>)
IdB == FromHex(<<0, 10, 1, 2>>)
IdC == FromHex(<<1, 12, 0, 0>>)
IdM == FromHex(<<2, 13, 0, 0>>)
IdW == FromHex(<<3, 14, 0, 0>>)
IdW2 == FromHex(<<0, 10, 5, 5>>)
IdQ == FromHex(<<0, 10, 4, 4>>)

\* root R, commit A (bookmark main), working copy W on A
LinearRepo ==
    [store |-> (RootCommitId :> Commit(<<>>, 0)) @@
               (IdA :> Commit(<<RootCommitId>>, 1)) @@
               (IdW :> Commit(<<IdA>>, 2)),
     wc |-> ("default" :> IdW),
     bookmarks |-> ("dev" :> Absent) @@ ("main" :> Normal(IdA)),
     remote |-> <<>>,
     current |-> "default"]

\* a merge M of B and C over A; B is pushed (a remote bookmark is on it);
\* dev is conflicted between B and C; two workspaces
MergeRepo ==
    [store |-> (RootCommitId :> Commit(<<>>, 0)) @@
               (IdA :> Commit(<<RootCommitId>>, 1)) @@
               (IdB :> Commit(<<IdA>>, 2)) @@
               (IdC :> Commit(<<IdA>>, 3)) @@
               (IdM :> Commit(<<IdB, IdC>>, 2)) @@
               (IdW :> Commit(<<IdM>>, 4)) @@
               (IdW2 :> Commit(<<IdC>>, 3)),
     wc |-> ("default" :> IdW) @@ ("second" :> IdW2),
     bookmarks |-> ("dev" :> Conflict(<<IdB, IdC>>)) @@ ("main" :> Normal(IdB)),
     remote |-> <<Normal(IdB)>>,
     current |-> "default"]

\* the handle's workspace was forgotten by another process before the
\* repository was opened: the View registers only "second"
ForgottenRepo ==
    [store |-> (RootCommitId :> Commit(<<>>, 0)) @@
               (IdA :> Commit(<<RootCommitId>>, 1)) @@
               (IdW2 :> Commit(<<IdA>>, 1)),
     wc |-> ("second" :> IdW2),
     bookmarks |-> ("dev" :> Absent) @@ ("main" :> Normal(IdA)),
     remote |-> <<>>,
     current |-> "default"]

\* the store cannot read Q, the parent of A and second parent of W
UnreadableRepo ==
    [store |-> (RootCommitId :> Commit(<<>>, 0)) @@
               (IdA :> Commit(<<IdQ>>, 1)) @@
               (IdW :> Commit(<<IdA, IdQ>>, 2)),
     wc |-> ("default" :> IdW),
     bookmarks |-> ("dev" :> Absent) @@ ("main" :> Normal(IdA)),
     remote |-> <<>>,
     current |-> "default"]

SmallRepos == {LinearRepo, MergeRepo, ForgottenRepo, UnreadableRepo}

\* a linear history 0 <- 1 <- ... <- DeepChainLen, bookmark main on its tip
\* and dev 60 commits below it, one working copy on the tip and one on
\* commit 2
DeepChainRepo ==
    [store |-> [c \in 0..DeepChainLen |->
                   IF c = 0 THEN Commit(<<>>, 0) ELSE Commit(<<c - 1>>, c)] @@
               (IdW :> Commit(<<DeepChainLen>>, 1)) @@
               (IdW2 :> Commit(<<2>>, 2)),
     wc |-> ("default" :> IdW) @@ ("second" :> IdW2),
     bookmarks |-> ("dev" :> Normal(DeepChainLen - 60)) @@
                   ("main" :> Normal(DeepChainLen)),
     remote |-> <<>>,
     current |-> "default"]

\* a ladder of merges: rung k holds the commits 2k-1 and 2k, both with the
\* two commits of rung k-1 as parents (rung 1 stands on the root); the
\* pushed head M merges the top rung, one working copy is on M and one on
\* the first commit of the top rung
LadderParents(c) ==
    IF c = 0 THEN <<>>
    ELSE IF c <= 2 THEN <<RootCommitId>>
    ELSE LET k == (c + 1) \div 2 IN <<2 * k - 3, 2 * k - 2>>

DeepLadderRepo ==
    [store |-> [c \in 0..(2 * LadderRungs) |-> Commit(LadderParents(c), c)] @@
               (IdM :> Commit(<<2 * LadderRungs - 1, 2 * LadderRungs>>, 1)) @@
               (IdW :> Commit(<<IdM>>, 2)) @@
               (IdW2 :> Commit(<<2 * LadderRungs - 1>>, 3)),
     wc |-> ("default" :> IdW) @@ ("second" :> IdW2),
     bookmarks |-> ("dev" :> Absent) @@ ("main" :> Absent),
     remote |-> <<Normal(IdM)>>,
     current |-> "default"]

DeepRepos == {DeepChainRepo, DeepLadderRepo}

\* a linear history of HugeChainLen commits, the root first, and one working
\* copy on its tip: the root is the (HugeChainLen + 1)-th commit a search
\* from the working copy comes to
HugeChainRepo ==
    [store |-> [c \in 0..(HugeChainLen - 1) |->
                   IF c = 0 THEN Commit(<<>>, 0) ELSE Commit(<<c - 1>>, 1)] @@
               (IdW :> Commit(<<HugeChainLen - 1>>, 2)),
     wc |-> ("default" :> IdW),
     bookmarks |-> ("dev" :> Absent) @@ ("main" :> Normal(HugeChainLen - 1)),
     remote |-> <<>>,
     current |-> "default"]


----------------------------------------------------------------------------
(* Arguments and results *)

\* a C string argument: a null pointer or a string
NullPtr == [null |-> TRUE]
Ptr(x) == [null |-> FALSE, s |-> x]

NoArgs ==
    [name |-> NullPtr, revision_id |-> NullPtr, destination_path |-> NullPtr,
     revision_ids |-> NullPtr, allow_backwards |-> FALSE,
     ignore_immutable |-> FALSE]

Call(op, args) == [op |-> op] @@ args

\* the commits a caller can name from what the handle shows: the workspace
\* heads and their parents, the bookmark targets, the remote heads, the root
Heads(r) ==
    Range(WcCommitIds(r)) \cup Range(RemoteHeads(r)) \cup
    UNION {Range(r.bookmarks[b].ids) : b \in DOMAIN r.bookmarks}

Shown(st, r) ==
    Heads(r) \cup {RootCommitId} \cup
    UNION {Range(ParentIds(st, c)) : c \in Range(WcCommitIds(r)) \cap DOMAIN st}

\* the revision prefixes the calls are tried with: the full id of every
\* commit shown, the empty prefix, two one-digit prefixes and a prefix no
\* commit has
RevisionPrefixes(st, r) ==
    {Hex(c) : c \in Shown(st, r)} \cup {<<>>, <<0>>, <<3>>, <<15, 15>>}

----------------------------------------------------------------------------
(* Transactions *)

\* a slip: a conflicted bookmark does not survive the commit
TxCommitDropsConflicts(base, wc, bookmarks, op) ==
    Snapshot(op, wc,
             [b \in DOMAIN bookmarks |->
                 IF bookmarks[b].kind = "conflict" THEN Absent ELSE bookmarks[b]],
             base.remote)

\* tx.commit on a transaction started from `base` with the View edited to
\* (wc, bookmarks): the snapshot of a new operation
TxCommit(base, wc, bookmarks, op) ==
    Snapshot(op, wc, bookmarks, base.remote)

\* a slip: the new id is added as one more side of a conflicted bookmark
SetLocalBookmarkTargetAddsSide(bookmarks, ref_name, id) ==
    [bookmarks EXCEPT ![ref_name] =
        IF @.kind = "conflict" THEN Conflict(@.ids \o <<id>>) ELSE Normal(id)]

\* view.set_local_bookmark_target(name, RefTarget::normal(id))
SetLocalBookmarkTarget(bookmarks, ref_name, id) ==
    [bookmarks EXCEPT ![ref_name] = Normal(id)]

\* a slip: the entry is left in the map
RemoveWcCommitKept(wc, ws_name) == wc

\* view.remove_wc_commit(name)
RemoveWcCommit(wc, ws_name) ==
    [n \in DOMAIN wc \ {ws_name} |-> wc[n]]

\* a slip: the map is left with the one entry
SetWcCommitAlone(wc, ws_name, id) == ws_name :> id

\* view.set_wc_commit(name, id)
SetWcCommit(wc, ws_name, id) ==
    [n \in DOMAIN wc \cup {ws_name} |-> IF n = ws_name THEN id ELSE wc[n]]

----------------------------------------------------------------------------
(* jj_set_bookmark *)

\* a slip: the root is not tested
SetBookmarkGateRootUntested(st, r, ref_name, revision_str, allow_backwards, ignore_immutable) ==
    LET target_commit == FindTargetCommit(st, r, revision_str)
    IN  IF target_commit = NoCommit THEN "NotFound"
        ELSE IF ~ignore_immutable /\ IsImmutableWalk(st, r, target_commit)
        THEN "ImmutableTarget"
        ELSE IF ~allow_backwards
                /\ IsBackwardsWalk(st, r, ref_name, target_commit)
        THEN "BackwardsMove"
        ELSE "ok"

\* a slip: the immutability check runs whatever ignore_immutable is
SetBookmarkGateFlagUnread(st, r, ref_name, revision_str, allow_backwards, ignore_immutable) ==
    LET target_commit == FindTargetCommit(st, r, revision_str)
    IN  IF target_commit = NoCommit THEN "NotFound"
        ELSE IF target_commit = RootCommitId THEN "ImmutableTarget"
        ELSE IF IsImmutableWalk(st, r, target_commit) THEN "ImmutableTarget"
        ELSE IF ~allow_backwards
                /\ IsBackwardsWalk(st, r, ref_name, target_commit)
        THEN "BackwardsMove"
        ELSE "ok"

\* a slip: the backwards-move check comes before the immutability check
SetBookmarkGateBackwardsFirst(st, r, ref_name, revision_str, allow_backwards, ignore_immutable) ==
    LET target_commit == FindTargetCommit(st, r, revision_str)
    IN  IF target_commit = NoCommit THEN "NotFound"
        ELSE IF ~allow_backwards
                /\ IsBackwardsWalk(st, r, ref_name, target_commit)
        THEN "BackwardsMove"
        ELSE IF ~ignore_immutable /\ target_commit = RootCommitId
        THEN "ImmutableTarget"
        ELSE IF ~ignore_immutable /\ IsImmutableWalk(st, r, target_commit)
        THEN "ImmutableTarget"
        ELSE "ok"

\* the gates before the transaction, in the order of the source: the
\* error kind of the first gate that rejects, or "ok"
SetBookmarkGate(st, r, ref_name, revision_str, allow_backwards, ignore_immutable) ==
    LET target_commit == FindTargetCommit(st, r, revision_str)
    IN  IF target_commit = NoCommit THEN "NotFound"
        ELSE IF ~ignore_immutable /\ target_commit = RootCommitId
        THEN "ImmutableTarget"
        ELSE IF ~ignore_immutable /\ IsImmutableWalk(st, r, target_commit)
        THEN "ImmutableTarget"
        ELSE IF ~allow_backwards
                /\ IsBackwardsWalk(st, r, ref_name, target_commit)
        THEN "BackwardsMove"
        ELSE "ok"

\* the snapshot the handle holds after a committed set-bookmark transaction
SetBookmarkSwap(r, new_repo) == new_repo

SetBookmark(name, revision_id, allow_backwards, ignore_immutable) ==
    LET args == [NoArgs EXCEPT !.name = name, !.revision_id = revision_id,
                               !.allow_backwards = allow_backwards,
                               !.ignore_immutable = ignore_immutable]
        gate == IF name.null \/ revision_id.null THEN "InvalidInput"
                ELSE SetBookmarkGate(store, repo, name.s, revision_id.s,
                                     allow_backwards, ignore_immutable)
    IN  /\ call.op = "idle"
        /\ call' = Call("setBookmark", args)
        /\ prev' = repo
        /\ out' = <<>>
        /\ UNCHANGED <<store, current_workspace, fs>>
        /\ IF gate # "ok"
           THEN /\ result' = gate
                /\ UNCHANGED <<repo, ops>>
           ELSE /\ ops < MaxOps
                /\ \/ LET target_commit ==
                              FindTargetCommit(store, repo, revision_id.s)
                          new_repo ==
                              TxCommit(repo, repo.wc,
                                  SetLocalBookmarkTarget(repo.bookmarks,
                                      name.s, target_commit),
                                  ops + 1)
                      IN  /\ repo' = SetBookmarkSwap(repo, new_repo)
                          /\ ops' = ops + 1
                          /\ result' = "ok"
                   \/ /\ result' = "TransactionError"
                      /\ UNCHANGED <<repo, ops>>

----------------------------------------------------------------------------
(* jj_workspace_forget *)

\* a slip: the existence check comes first
WorkspaceForgetGateExistenceFirst(r, current, ws_name) ==
    IF ws_name \notin DOMAIN r.wc THEN "NotFound"
    ELSE IF ws_name = current THEN "CannotForgetCurrent"
    ELSE "ok"

\* a slip: the committed snapshot is dropped
WorkspaceForgetSwapDropped(r, new_repo) == r

\* the checks before the transaction, in the order of the source
WorkspaceForgetGate(r, current, ws_name) ==
    IF ws_name = current THEN "CannotForgetCurrent"
    ELSE IF ws_name \notin DOMAIN r.wc THEN "NotFound"
    ELSE "ok"

WorkspaceForgetSwap(r, new_repo) == new_repo

WorkspaceForget(workspace_name) ==
    LET args == [NoArgs EXCEPT !.name = workspace_name]
        gate == IF workspace_name.null THEN "InvalidInput"
                ELSE WorkspaceForgetGate(repo, current_workspace,
                                         workspace_name.s)
    IN  /\ call.op = "idle"
        /\ call' = Call("workspaceForget", args)
        /\ prev' = repo
        /\ out' = <<>>
        /\ UNCHANGED <<store, current_workspace, fs>>
        /\ IF gate # "ok"
           THEN /\ result' = gate
                /\ UNCHANGED <<repo, ops>>
           ELSE /\ ops < MaxOps
                /\ \/ LET new_repo ==
                              TxCommit(repo,
                                  RemoveWcCommit(repo.wc, workspace_name.s),
                                  repo.bookmarks, ops + 1)
                      IN  /\ repo' = WorkspaceForgetSwap(repo, new_repo)
                          /\ ops' = ops + 1
                          /\ result' = "ok"
                   \/ /\ result' = "TransactionError"
                      /\ UNCHANGED <<repo, ops>>

----------------------------------------------------------------------------
(* jj_workspace_add *)

\* handle.repo_root, as path components
repo_root == <<"repos", "main">>

\* Path::parent
PathParent(comps) == SubSeq(comps, 1, Len(comps) - 1)

\* abs_dest_path: an absolute path as given, a relative one joined to the
\* parent of the repository root
AbsDestPath(dest) ==
    IF dest.abs THEN dest.comps ELSE PathParent(repo_root) \o dest.comps

\* the workspace name: the one given, or the basename of the destination
WsName(dest, workspace_name) ==
    IF workspace_name.null
    THEN IF dest.comps = <<>> THEN "default" ELSE dest.comps[Len(dest.comps)]
    ELSE workspace_name.s

\* the revision specs of a comma-separated list: the items that are not
\* blank (a list is modelled as the sequence of its trimmed items)
RECURSIVE RevisionSpecs(_)
RevisionSpecs(items) ==
    IF items = <<>> THEN <<>>
    ELSE IF items[1] = <<>> THEN RevisionSpecs(Tail(items))
         ELSE <<items[1]>> \o RevisionSpecs(Tail(items))

\* a slip: a directory is accepted whatever it holds
ValidateDestinationAnyDirectory(files, path) ==
    IF files[path] = "absent" THEN "create"
    ELSE IF files[path] = "file" THEN "InvalidDestination"
    ELSE "ok"

\* the destination check: the error kind, or "ok" (the directory exists
\* and holds nothing but .jj) or "create" (it does not exist)
ValidateDestination(files, path) ==
    IF files[path] = "absent" THEN "create"
    ELSE IF files[path] = "file" THEN "InvalidDestination"
    ELSE IF files[path] = "nonempty" THEN "InvalidDestination"
    ELSE "ok"

\* get_current_wc_parent_ids: <<NoCommit>> stands for the Err
GetCurrentWcParentIds(st, r, current) ==
    IF current \notin DOMAIN r.wc THEN <<NoCommit>>
    ELSE IF ~Readable(st, r.wc[current]) THEN <<NoCommit>>
    ELSE ParentIds(st, r.wc[current])

\* parent_ids: the explicit revisions resolved, else the parents of the
\* current working copy; the root when that list is empty
ParentIdsFor(st, r, current, revision_specs) ==
    LET ids == IF revision_specs = <<>>
               THEN GetCurrentWcParentIds(st, r, current)
               ELSE ResolveRevisionSpecs(st, r, revision_specs)
    IN  IF ids = <<>> THEN <<RootCommitId>> ELSE ids

\* ids of the commits a transaction writes
NewCommitId(k) == FromHex(<<(5 * k) % 16, 15, 0, k % 16>>)

FreshId(st) ==
    NewCommitId(CHOOSE k \in 1..16 :
                    /\ NewCommitId(k) \notin DOMAIN st
                    /\ \A j \in 1..(k - 1) : NewCommitId(j) \in DOMAIN st)

\* the parents the transaction can read
RECURSIVE ReadableOnly(_, _)
ReadableOnly(st, ids) ==
    IF ids = <<>> THEN <<>>
    ELSE IF Readable(st, ids[1])
         THEN <<ids[1]>> \o ReadableOnly(st, Tail(ids))
         ELSE ReadableOnly(st, Tail(ids))

\* the commit the transaction writes: the parents read, the first one's tree
NewWorkingCopyCommit(st, parents) == Commit(parents, st[parents[1]].tree)

\* what the handle holds after the transaction committed
WorkspaceAddSwap(r, final_repo) == final_repo

\* a slip: the handle is given the snapshot of the initialisation at once
HandleAfterInitAssigned(r, new_repo) == new_repo

\* what the handle holds when the call fails after the workspace was
\* initialised: new_repo is a local of the call, the handle keeps its own
HandleAfterInit(r, new_repo) == r

\* The whole call: the result kind and the store, files, operation count
\* and handle snapshot it leaves.  `fail` names the step of the
\* environment that fails if the call gets to it.
WorkspaceAddRun(st, r, current, files, nops, dest, workspace_name, items, fail) ==
    LET same == [result |-> "ok", repo |-> r, store |-> st, fs |-> files,
                 ops |-> nops]
        path == AbsDestPath(dest)
        ws_name == WsName(dest, workspace_name)
        valid == ValidateDestination(files, path)
        files1 == IF valid = "create"
                  THEN [files EXCEPT ![path] = "empty"] ELSE files
        parent_ids == ParentIdsFor(st, r, current, RevisionSpecs(items))
        \* Workspace::init_workspace_with_existing_repo: creates .jj in the
        \* destination and commits an operation that checks out a fresh
        \* commit on the root for the workspace
        c0 == FreshId(st)
        st1 == st @@ (c0 :> Commit(<<RootCommitId>>, st[RootCommitId].tree))
        files2 == [files1 EXCEPT ![path] = "jj_only"]
        new_repo == TxCommit(r, SetWcCommit(r.wc, ws_name, c0), r.bookmarks,
                             nops + 1)
        parents == ReadableOnly(st1, parent_ids)
        c1 == FreshId(st1)
        st2 == st1 @@ (c1 :> NewWorkingCopyCommit(st1, parents))
        final_repo == TxCommit(new_repo, SetWcCommit(new_repo.wc, ws_name, c1),
                               new_repo.bookmarks, nops + 2)
    IN  IF valid \notin {"ok", "create"}
        THEN [same EXCEPT !.result = valid]
        ELSE IF valid = "ok" /\ fail = "read_dir"
        THEN [same EXCEPT !.result = "IOError"]
        ELSE IF valid = "create" /\ fail = "create_dir"
        THEN [same EXCEPT !.result = "IOError"]
        ELSE IF parent_ids = <<NoCommit>>
        THEN [same EXCEPT !.result = "NotFound", !.fs = files1]
        ELSE IF files1[path] = "jj_only" \/ fail = "init"
        THEN [same EXCEPT !.result = "IOError", !.fs = files1]
        ELSE IF parents = <<>>
        THEN [same EXCEPT !.result = "NotFound", !.fs = files2,
                          !.repo = HandleAfterInit(r, new_repo),
                          !.store = st1, !.ops = nops + 1]
        ELSE IF fail = "write"
        THEN [same EXCEPT !.result = "TransactionError", !.fs = files2,
                          !.repo = HandleAfterInit(r, new_repo),
                          !.store = st1, !.ops = nops + 1]
        ELSE IF fail = "commit"
        THEN [same EXCEPT !.result = "TransactionError", !.fs = files2,
                          !.repo = HandleAfterInit(r, new_repo),
                          !.store = st2, !.ops = nops + 1]
        ELSE [same EXCEPT !.repo = WorkspaceAddSwap(r, final_repo),
                          !.fs = files2, !.store = st2, !.ops = nops + 2]

WorkspaceAdd(destination_path, workspace_name, revision_ids, fail) ==
    LET args == [NoArgs EXCEPT !.destination_path = destination_path,
                               !.name = workspace_name,
                               !.revision_ids = revision_ids]
        items == IF revision_ids.null THEN <<>> ELSE revision_ids.s
        run == IF destination_path.null
               THEN [result |-> "InvalidInput", repo |-> repo,
                     store |-> store, fs |-> fs, ops |-> ops]
               ELSE WorkspaceAddRun(store, repo, current_workspace, fs, ops,
                                    destination_path.s, workspace_name, items,
                                    fail)
    IN  /\ call.op = "idle"
        /\ run.ops <= MaxOps
        /\ call' = Call("workspaceAdd", args)
        /\ prev' = repo
        /\ out' = <<>>
        /\ result' = run.result
        /\ repo' = run.repo
        /\ store' = run.store
        /\ fs' = run.fs
        /\ ops' = run.ops
        /\ UNCHANGED current_workspace


----------------------------------------------------------------------------
(* Reads *)

\* jj_list_branches: one entry per local bookmark
ListBranches(r) ==
    [i \in 1..Len(LocalBookmarks(r)) |->
        [name |-> LocalBookmarks(r)[i], is_local |-> TRUE]]

\* a slip: the comparison is the other way round
NameLessReversed(a, b) == NameIndex(WorkspaceNames, a) > NameIndex(WorkspaceNames, b)

\* a.name.cmp(&b.name) is Less
NameLess(a, b) == NameIndex(WorkspaceNames, a) < NameIndex(WorkspaceNames, b)

\* Vec::sort_by on the name: a stable insertion sort
RECURSIVE InsertByName(_, _)
InsertByName(sorted, e) ==
    IF sorted = <<>> THEN <<e>>
    ELSE IF NameLess(e.name, sorted[1].name) THEN <<e>> \o sorted
         ELSE <<sorted[1]>> \o InsertByName(Tail(sorted), e)

RECURSIVE SortByName(_)
SortByName(entries) ==
    IF entries = <<>> THEN <<>>
    ELSE InsertByName(SortByName(SubSeq(entries, 1, Len(entries) - 1)),
                      entries[Len(entries)])

\* the workspaces of the View, as the iteration of wc_commit_ids yields them
RECURSIVE WorkspaceEntriesFrom(_, _, _)
WorkspaceEntriesFrom(wc, current, i) ==
    IF i > Len(WorkspaceNames) THEN <<>>
    ELSE IF WorkspaceNames[i] \in DOMAIN wc
         THEN <<[name |-> WorkspaceNames[i],
                 is_current |-> (WorkspaceNames[i] = current),
                 commit_id |-> Hex(wc[WorkspaceNames[i]])]>>
              \o WorkspaceEntriesFrom(wc, current, i + 1)
         ELSE WorkspaceEntriesFrom(wc, current, i + 1)

\* jj_list_workspaces
ListWorkspaces(r, current) == SortByName(WorkspaceEntriesFrom(r.wc, current, 1))

ReadBranches ==
    /\ call.op = "idle"
    /\ call' = Call("listBookmarks", NoArgs)
    /\ prev' = repo
    /\ result' = "ok"
    /\ out' = ListBranches(repo)
    /\ UNCHANGED <<store, repo, current_workspace, fs, ops>>

ReadWorkspaces ==
    /\ call.op = "idle"
    /\ call' = Call("listWorkspaces", NoArgs)
    /\ prev' = repo
    /\ result' = "ok"
    /\ out' = ListWorkspaces(repo, current_workspace)
    /\ UNCHANGED <<store, repo, current_workspace, fs, ops>>

\* commit_id_hex[..12]: the first twelve digits of the id (the ids of the
\* model have HexLen digits and are shown whole when that is fewer)
ShortId(hex) ==
    SubSeq(hex, 1, IF Len(hex) < ShortIdLen THEN Len(hex) ELSE ShortIdLen)

RECURSIVE ShortIds(_)
ShortIds(ids) ==
    IF ids = <<>> THEN <<>> ELSE <<ShortId(Hex(ids[1]))>> \o ShortIds(Tail(ids))

\* workspace_commits.get: the workspace registered on the commit, the last
\* one in the View's order if there are several (HashMap::insert replaces);
\* <<>> is None
RECURSIVE WorkspaceCommitsGet(_, _, _)
WorkspaceCommitsGet(wc, c, i) ==
    IF i = 0 THEN <<>>
    ELSE IF WorkspaceNames[i] \in DOMAIN wc /\ wc[WorkspaceNames[i]] = c
         THEN <<WorkspaceNames[i]>>
         ELSE WorkspaceCommitsGet(wc, c, i - 1)

\* a slip: a conflicted bookmark is not listed
RECURSIVE LogBookmarksNormalOnly(_, _, _)
LogBookmarksNormalOnly(r, names, c) ==
    IF names = <<>> THEN <<>>
    ELSE (IF r.bookmarks[names[1]] = Normal(c) THEN <<names[1]>> ELSE <<>>)
         \o LogBookmarksNormalOnly(r, Tail(names), c)

\* the local bookmarks whose target has the commit among its added ids
RECURSIVE LogBookmarks(_, _, _)
LogBookmarks(r, names, c) ==
    IF names = <<>> THEN <<>>
    ELSE (IF c \in Range(r.bookmarks[names[1]].ids) THEN <<names[1]>> ELSE <<>>)
         \o LogBookmarks(r, Tail(names), c)

\* the RevisionInfo of a commit (the fields that depend on the graph and the
\* View)
RevisionInfo(st, r, c) ==
    [id |-> ShortId(Hex(c)),
     bookmarks |-> LogBookmarks(r, LocalBookmarks(r), c),
     is_working_copy |-> WorkspaceCommitsGet(r.wc, c, Len(WorkspaceNames)) # <<>>,
     workspace_name |-> WorkspaceCommitsGet(r.wc, c, Len(WorkspaceNames)),
     is_root |-> (Hex(c) = Hex(RootCommitId)),
     parents |-> ShortIds(ParentIds(st, c))]

\* the commits of ids the store can read, in their order
RECURSIVE GetCommits(_, _)
GetCommits(st, ids) ==
    IF ids = <<>> THEN <<>>
    ELSE (IF Readable(st, ids[1]) THEN <<ids[1]>> ELSE <<>>)
         \o GetCommits(st, Tail(ids))

\* a slip: the loop is left one entry late
LogFullLate(revisions) == Len(revisions) > max_revisions

\* revisions.len() >= max_revisions
LogFull(revisions) == Len(revisions) >= max_revisions

\* one turn of the loop of jj_get_log
LogTurn(st, r, w) ==
    IF w.done THEN w
    ELSE IF w.to_visit = <<>> THEN [w EXCEPT !.done = TRUE]
    ELSE LET commit == Top(w.to_visit)
             rest == Pop(w.to_visit)
             visited == w.visited \cup {commit}
         IN  IF LogFull(w.revisions)
             THEN [w EXCEPT !.to_visit = rest, !.done = TRUE]
             ELSE IF commit \in w.visited
             THEN [w EXCEPT !.to_visit = rest]
             ELSE [to_visit |->
                       IF commit = RootCommitId THEN rest
                       ELSE rest \o GetCommits(st,
                                SelectNotIn(ParentIds(st, commit), visited)),
                   visited |-> visited,
                   revisions |-> Append(w.revisions, RevisionInfo(st, r, commit)),
                   done |-> FALSE]

RECURSIVE LogTurns(_, _, _, _)
LogTurns(st, r, w, n) ==
    IF n = 0 THEN w
    ELSE IF n = 1 THEN LogTurn(st, r, w)
    ELSE LET mid == LogTurns(st, r, w, n \div 2)
         IN  IF mid.done THEN mid
             ELSE LogTurns(st, r, mid, n - n \div 2)

RECURSIVE LogLoop(_, _, _, _)
LogLoop(st, r, w, n) ==
    LET t == LogTurns(st, r, w, n)
    IN  IF t.done THEN t ELSE LogLoop(st, r, t, 2 * n)

\* jj_get_log: the revisions, from the working-copy commits the store can
\* read
GetLog(st, r) ==
    LogLoop(st, r,
            [to_visit |-> GetCommits(st, WcCommitIds(r)), visited |-> {},
             revisions |-> <<>>, done |-> FALSE], 8).revisions

ReadLog ==
    /\ call.op = "idle"
    /\ call' = Call("getLog", NoArgs)
    /\ prev' = repo
    /\ result' = "ok"
    /\ out' = GetLog(store, repo)
    /\ UNCHANGED <<store, repo, current_workspace, fs, ops>>

----------------------------------------------------------------------------
(* Trees, files and diffs *)

\* a tree value: absent, a file with its content, a value that is present
\* but no file (a symlink), or a subtree the store cannot read
AbsentValue == [kind |-> "absent"]
FileValue(content) ==
    [kind |-> "file", content |-> content, executable |-> FALSE]
ExecutableValue(content) ==
    [kind |-> "file", content |-> content, executable |-> TRUE]
SymlinkValue == [kind |-> "symlink"]
UnreadableTree == [kind |-> "unreadable"]

\* the repository paths, in the order a tree diff comes to them
Paths == <<"a.txt", "b.txt", "c.txt", "lib">>

\* the trees of the store, by number; tree 0 is the empty tree of the root
TreeTable ==
    <<  <<>>,
        ("a.txt" :> FileValue("x\ny\n")) @@ ("b.txt" :> FileValue("one\n")),
        ("a.txt" :> FileValue("x\nz\n")) @@ ("c.txt" :> FileValue("new\nfile")),
        ("a.txt" :> FileValue("x\ny\n")) @@ ("b.txt" :> SymlinkValue) @@
            ("c.txt" :> FileValue("new\r\n")),
        ("a.txt" :> FileValue("")) @@ ("b.txt" :> FileValue("one\n")) @@
            ("lib" :> UnreadableTree)  >>

\* commit.tree(): the tree of the commit (the tree numbers of the long
\* histories go round the table)
TableTree(tree) == TreeTable[(tree % Len(TreeTable)) + 1]

\* the lines a file may hold in the repositories of texts
LineAlphabet == <<"a", "b", "">>

\* the trees from this number on hold the one file a.txt
TextTreeBase == 1000

\* the texts of at most MaxLines lines, by number: text 0 is empty
NumTexts == ((Len(LineAlphabet) ^ (MaxLines + 1)) - 1) \div (Len(LineAlphabet) - 1)

RECURSIVE TextLines(_)
TextLines(k) ==
    IF k = 0 THEN <<>>
    ELSE <<LineAlphabet[((k - 1) % Len(LineAlphabet)) + 1]>>
         \o TextLines((k - 1) \div Len(LineAlphabet))

\* the content of a file of these lines, every line with its ending
RECURSIVE TextContent(_)
TextContent(lines) ==
    IF lines = <<>> THEN "" ELSE lines[1] \o "\n" \o TextContent(Tail(lines))

\* tree TextTreeBase + 2k holds a.txt with text k; the tree after it holds
\* the same content with the executable bit set
TextTree(n) ==
    "a.txt" :> (IF n % 2 = 0 THEN FileValue(TextContent(TextLines(n \div 2)))
                ELSE ExecutableValue(TextContent(TextLines(n \div 2))))

MergedTree(st, c) ==
    IF st[c].tree < TextTreeBase THEN TableTree(st[c].tree)
    ELSE TextTree(st[c].tree - TextTreeBase)

\* tree.path_value(path)
ValueAt(tree, path) ==
    IF path \in DOMAIN tree THEN tree[path] ELSE AbsentValue

\* MergedTreeValue::is_absent
IsAbsent(value) == value.kind = "absent"

EverythingMatcher == [everything |-> TRUE]
FilesMatcher(file) == [everything |-> FALSE, file |-> file]

\* the diff comes to the entry at `path`: the matcher matches the path, or,
\* for a subtree, a file below it
MatcherVisits(matcher, path, before, after) ==
    \/ matcher.everything
    \/ matcher.file = path
    \/ /\ UnreadableTree \in {before, after}
       /\ Len(matcher.file) > Len(path) + 1
       /\ SubSeq(matcher.file, 1, Len(path) + 1) = path \o "/"

\* before.diff_stream(after, matcher): an entry for every path the matcher
\* lets through whose values differ; its values are an Err when a subtree
\* of either side cannot be read
RECURSIVE DiffStreamFrom(_, _, _, _)
DiffStreamFrom(before_tree, after_tree, matcher, i) ==
    IF i > Len(Paths) THEN <<>>
    ELSE LET path == Paths[i]
             before == ValueAt(before_tree, path)
             after == ValueAt(after_tree, path)
         IN  (IF before # after /\ MatcherVisits(matcher, path, before, after)
              THEN <<[path |-> path,
                      ok |-> UnreadableTree \notin {before, after},
                      before |-> before, after |-> after]>>
              ELSE <<>>)
             \o DiffStreamFrom(before_tree, after_tree, matcher, i + 1)

DiffStream(before_tree, after_tree, matcher) ==
    DiffStreamFrom(before_tree, after_tree, matcher, 1)

\* a slip: the two one-sided cases are taken for each other
ChangeStatusSwapped(before, after) ==
    IF IsAbsent(before) /\ ~IsAbsent(after) THEN "deleted"
    ELSE IF ~IsAbsent(before) /\ IsAbsent(after) THEN "added"
    ELSE "modified"

\* the status of jj_get_working_copy_changes
ChangeStatus(before, after) ==
    IF IsAbsent(before) /\ ~IsAbsent(after) THEN "added"
    ELSE IF ~IsAbsent(before) /\ IsAbsent(after) THEN "deleted"
    ELSE "modified"

\* the loop over the diff entries of jj_get_working_copy_changes
RECURSIVE FileChanges(_)
FileChanges(entries) ==
    IF entries = <<>> THEN <<>>
    ELSE (IF entries[1].ok
          THEN <<[path |-> entries[1].path,
                  status |-> ChangeStatus(entries[1].before, entries[1].after)]>>
          ELSE <<>>)
         \o FileChanges(Tail(entries))

\* get_file_content: the content of a file, the empty string for any other
\* value
GetFileContent(value) == IF value.kind = "file" THEN value.content ELSE ""

\* a line without its ending: the "\r" of a "\r\n" goes with the "\n"
StripCr(line) ==
    IF Len(line) > 0 /\ SubSeq(line, Len(line), Len(line)) = "\r"
    THEN SubSeq(line, 1, Len(line) - 1) ELSE line

\* str::lines: the text split at its line endings; the last line needs none
RECURSIVE LinesFrom(_, _)
LinesFrom(s, line) ==
    IF s = "" THEN (IF line = "" THEN <<>> ELSE <<line>>)
    ELSE IF Head(s) = "\n" THEN <<StripCr(line)>> \o LinesFrom(Tail(s), "")
    ELSE LinesFrom(Tail(s), line \o Head(s))

Lines(s) == LinesFrom(s, "")

\* push_str(&format!("{prefix}{line}\n")) for every line
RECURSIVE PrefixedLines(_, _)
PrefixedLines(prefix, lines) ==
    IF lines = <<>> THEN ""
    ELSE prefix \o lines[1] \o "\n" \o PrefixedLines(prefix, Tail(lines))

\* a slip: lines that are equal are not taken together
RECURSIVE UnifiedDiffFromNoContext(_, _, _, _)
UnifiedDiffFromNoContext(before_lines, after_lines, i, j) ==
    IF ~(i < Len(before_lines) \/ j < Len(after_lines)) THEN ""
    ELSE IF /\ j < Len(after_lines)
            /\ \/ i >= Len(before_lines)
               \/ ~\E k \in (i + 1)..Len(before_lines) :
                      before_lines[k] = after_lines[j + 1]
    THEN "+" \o after_lines[j + 1] \o "\n"
         \o UnifiedDiffFromNoContext(before_lines, after_lines, i, j + 1)
    ELSE "-" \o before_lines[i + 1] \o "\n"
         \o UnifiedDiffFromNoContext(before_lines, after_lines, i + 1, j)

\* a slip: a line of the before-text that has no equal at the cursor is
\* deleted before anything is inserted
RECURSIVE UnifiedDiffFromDeletionFirst(_, _, _, _)
UnifiedDiffFromDeletionFirst(before_lines, after_lines, i, j) ==
    IF ~(i < Len(before_lines) \/ j < Len(after_lines)) THEN ""
    ELSE IF /\ i < Len(before_lines)
            /\ j < Len(after_lines)
            /\ before_lines[i + 1] = after_lines[j + 1]
    THEN " " \o before_lines[i + 1] \o "\n"
         \o UnifiedDiffFromDeletionFirst(before_lines, after_lines, i + 1, j + 1)
    ELSE IF i < Len(before_lines)
    THEN "-" \o before_lines[i + 1] \o "\n"
         \o UnifiedDiffFromDeletionFirst(before_lines, after_lines, i + 1, j)
    ELSE "+" \o after_lines[j + 1] \o "\n"
         \o UnifiedDiffFromDeletionFirst(before_lines, after_lines, i, j + 1)

\* the loop of generate_unified_diff from the places i and j (counted from 0)
RECURSIVE UnifiedDiffFrom(_, _, _, _)
UnifiedDiffFrom(before_lines, after_lines, i, j) ==
    IF ~(i < Len(before_lines) \/ j < Len(after_lines)) THEN ""
    ELSE IF /\ i < Len(before_lines)
            /\ j < Len(after_lines)
            /\ before_lines[i + 1] = after_lines[j + 1]
    THEN " " \o before_lines[i + 1] \o "\n"
         \o UnifiedDiffFrom(before_lines, after_lines, i + 1, j + 1)
    ELSE IF /\ j < Len(after_lines)
            /\ \/ i >= Len(before_lines)
               \/ ~\E k \in (i + 1)..Len(before_lines) :
                      before_lines[k] = after_lines[j + 1]
    THEN "+" \o after_lines[j + 1] \o "\n"
         \o UnifiedDiffFrom(before_lines, after_lines, i, j + 1)
    ELSE "-" \o before_lines[i + 1] \o "\n"
         \o UnifiedDiffFrom(before_lines, after_lines, i + 1, j)

\* a slip: the header reports the longer side for both sides
GenerateUnifiedDiffMaxLines(before, after) ==
    LET before_lines == Lines(before)
        after_lines == Lines(after)
        max_lines == IF Len(before_lines) > Len(after_lines)
                     THEN Len(before_lines) ELSE Len(after_lines)
    IN  IF max_lines = 0 THEN ""
        ELSE "@@ -1," \o ToString(max_lines) \o " +1,"
                 \o ToString(max_lines) \o " @@\n"
             \o UnifiedDiffFrom(before_lines, after_lines, 0, 0)

\* generate_unified_diff
GenerateUnifiedDiff(before, after) ==
    LET before_lines == Lines(before)
        after_lines == Lines(after)
    IN  IF Len(before_lines) = 0 /\ Len(after_lines) = 0 THEN ""
        ELSE "@@ -1," \o ToString(Len(before_lines)) \o " +1,"
                 \o ToString(Len(after_lines)) \o " @@\n"
             \o UnifiedDiffFrom(before_lines, after_lines, 0, 0)

\* what the diff calls push for one entry
DiffBlock(path, before, after) ==
    LET before_is_file == ~IsAbsent(before)
        after_is_file == ~IsAbsent(after)
    IN  IF before_is_file /\ after_is_file
        THEN "diff --git a/" \o path \o " b/" \o path \o "\n"
             \o "--- a/" \o path \o "\n"
             \o "+++ b/" \o path \o "\n"
             \o GenerateUnifiedDiff(GetFileContent(before), GetFileContent(after))
        ELSE IF ~before_is_file /\ after_is_file
        THEN "diff --git a/" \o path \o " b/" \o path \o "\n"
             \o "new file\n"
             \o "--- /dev/null\n"
             \o "+++ b/" \o path \o "\n"
             \o PrefixedLines("+", Lines(GetFileContent(after)))
        ELSE IF before_is_file /\ ~after_is_file
        THEN "diff --git a/" \o path \o " b/" \o path \o "\n"
             \o "deleted file\n"
             \o "--- a/" \o path \o "\n"
             \o "+++ /dev/null\n"
             \o PrefixedLines("-", Lines(GetFileContent(before)))
        ELSE ""

\* the loop over the diff entries of the three diff calls; `last` is what
\* is pushed after every entry ("\n", or nothing in jj_get_file_diff)
RECURSIVE DiffOutput(_, _)
DiffOutput(entries, last) ==
    IF entries = <<>> THEN ""
    ELSE (IF entries[1].ok
          THEN DiffBlock(entries[1].path, entries[1].before, entries[1].after)
               \o last
          ELSE "")
         \o DiffOutput(Tail(entries), last)

\* the start of the working-copy reads: the commit of the current workspace
\* and its first parent, or the error
WorkingCopyPair(st, r, current) ==
    IF current \notin DOMAIN r.wc THEN [result |-> "NotFound"]
    ELSE IF ~Readable(st, r.wc[current]) THEN [result |-> "NotFound"]
    ELSE IF ParentIds(st, r.wc[current]) = <<>> THEN [result |-> "empty"]
    ELSE IF ~Readable(st, ParentIds(st, r.wc[current])[1])
    THEN [result |-> "NotFound"]
    ELSE [result |-> "ok",
          parent_tree |-> MergedTree(st, ParentIds(st, r.wc[current])[1]),
          wc_tree |-> MergedTree(st, r.wc[current])]

\* jj_get_working_copy_changes
GetWorkingCopyChanges(st, r, current) ==
    LET pair == WorkingCopyPair(st, r, current)
    IN  IF pair.result = "empty" THEN [result |-> "ok", out |-> <<>>]
        ELSE IF pair.result # "ok" THEN [result |-> pair.result, out |-> <<>>]
        ELSE [result |-> "ok",
              out |-> FileChanges(DiffStream(pair.parent_tree, pair.wc_tree,
                                             EverythingMatcher))]

\* jj_get_diff
GetDiff(st, r, current) ==
    LET pair == WorkingCopyPair(st, r, current)
    IN  IF pair.result = "empty" THEN [result |-> "ok", out |-> ""]
        ELSE IF pair.result # "ok" THEN [result |-> pair.result, out |-> <<>>]
        ELSE [result |-> "ok",
              out |-> DiffOutput(DiffStream(pair.parent_tree, pair.wc_tree,
                                            EverythingMatcher), "\n")]

\* RepoPathBuf::from_internal_string accepts the path
IsValidRepoPath(s) ==
    /\ s = "" \/ (Head(s) # "/" /\ SubSeq(s, Len(s), Len(s)) # "/")
    /\ \A i \in 1..(Len(s) - 1) : SubSeq(s, i, i + 1) # "//"

\* jj_get_file_diff
GetFileDiff(st, r, current, path) ==
    LET pair == WorkingCopyPair(st, r, current)
    IN  IF path.null THEN [result |-> "InvalidInput", out |-> <<>>]
        ELSE IF pair.result = "empty" THEN [result |-> "ok", out |-> ""]
        ELSE IF pair.result # "ok" THEN [result |-> pair.result, out |-> <<>>]
        ELSE IF ~IsValidRepoPath(path.s)
        THEN [result |-> "InvalidInput", out |-> <<>>]
        ELSE [result |-> "ok",
              out |-> DiffOutput(DiffStream(pair.parent_tree, pair.wc_tree,
                                            FilesMatcher(path.s)), "")]

\* jj_get_revision_diff: the revision is searched for as jj_set_bookmark
\* searches for its target
GetRevisionDiff(st, r, revision_id) ==
    IF revision_id.null THEN [result |-> "InvalidInput", out |-> <<>>]
    ELSE LET commit == FindTargetCommit(st, r, revision_id.s)
         IN  IF commit = NoCommit THEN [result |-> "NotFound", out |-> <<>>]
             ELSE IF ParentIds(st, commit) = <<>>
             THEN [result |-> "ok", out |-> ""]
             ELSE IF ~Readable(st, ParentIds(st, commit)[1])
             THEN [result |-> "NotFound", out |-> <<>>]
             ELSE [result |-> "ok",
                   out |-> DiffOutput(
                       DiffStream(MergedTree(st, ParentIds(st, commit)[1]),
                                  MergedTree(st, commit), EverythingMatcher),
                       "\n")]

ReadChanges ==
    /\ call.op = "idle"
    /\ call' = Call("listWorkingCopyChanges", NoArgs)
    /\ prev' = repo
    /\ result' = GetWorkingCopyChanges(store, repo, current_workspace).result
    /\ out' = GetWorkingCopyChanges(store, repo, current_workspace).out
    /\ UNCHANGED <<store, repo, current_workspace, fs, ops>>

ReadDiff ==
    /\ call.op = "idle"
    /\ call' = Call("getDiff", NoArgs)
    /\ prev' = repo
    /\ result' = GetDiff(store, repo, current_workspace).result
    /\ out' = GetDiff(store, repo, current_workspace).out
    /\ UNCHANGED <<store, repo, current_workspace, fs, ops>>

ReadFileDiff(path) ==
    /\ call.op = "idle"
    /\ call' = Call("getFileDiff", [NoArgs EXCEPT !.name = path])
    /\ prev' = repo
    /\ result' = GetFileDiff(store, repo, current_workspace, path).result
    /\ out' = GetFileDiff(store, repo, current_workspace, path).out
    /\ UNCHANGED <<store, repo, current_workspace, fs, ops>>

ReadRevisionDiff(revision_id) ==
    /\ call.op = "idle"
    /\ call' = Call("getRevisionDiff", [NoArgs EXCEPT !.revision_id = revision_id])
    /\ prev' = repo
    /\ result' = GetRevisionDiff(store, repo, revision_id).result
    /\ out' = GetRevisionDiff(store, repo, revision_id).out
    /\ UNCHANGED <<store, repo, current_workspace, fs, ops>>

----------------------------------------------------------------------------
(* The handle *)

\* the destinations workspaceAdd is tried on, and what is there at first
Destinations ==
    {[abs |-> FALSE, comps |-> <<"second">>],
     [abs |-> TRUE, comps |-> <<"repos", "third">>],
     [abs |-> FALSE, comps |-> <<"notes">>],
     [abs |-> FALSE, comps |-> <<"taken">>],
     [abs |-> TRUE, comps |-> <<"repos", "old">>]}

InitialFiles ==
    (<<"repos", "second">> :> "absent") @@ (<<"repos", "third">> :> "empty") @@
    (<<"repos", "notes">> :> "file") @@ (<<"repos", "taken">> :> "nonempty") @@
    (<<"repos", "old">> :> "jj_only")

\* jj_open_repo on one of the repositories, whose operation log holds
\* nops operations
OpenRepo(repos, nops) ==
    \E o \in repos :
        /\ store = o.store
        /\ repo = Snapshot(nops, o.wc, o.bookmarks, o.remote)
        /\ current_workspace = o.current
        /\ fs = InitialFiles
        /\ ops = nops
        /\ call = Call("idle", NoArgs)
        /\ result = "ok"
        /\ out = <<>>
        /\ prev = Snapshot(nops, o.wc, o.bookmarks, o.remote)

Init == OpenRepo(SmallRepos, 0)

\* the deep repositories are opened with room for one more operation
InitDeep == OpenRepo(DeepRepos, MaxOps - 1)

\* and so is the huge one
InitHuge == OpenRepo({HugeChainRepo}, MaxOps - 1)

\* jj_free_result: the caller is done with the result of its call and may
\* make the next one
FreeResult ==
    /\ call.op # "idle"
    /\ call' = Call("idle", NoArgs)
    /\ result' = "ok"
    /\ out' = <<>>
    /\ prev' = repo
    /\ UNCHANGED <<store, repo, current_workspace, fs, ops>>

\* the arguments setBookmark is tried with: a null pointer for either
\* string, and every bookmark name with every prefix and flag
SetBookmarkArgs ==
    {[NoArgs EXCEPT !.revision_id = Ptr(<<>>)],
     [NoArgs EXCEPT !.name = Ptr("main")]}
    \cup {[NoArgs EXCEPT !.name = Ptr(n), !.revision_id = Ptr(p),
                         !.allow_backwards = ab, !.ignore_immutable = ii] :
            n \in Range(BookmarkNames), p \in RevisionPrefixes(store, repo),
            ab \in BOOLEAN, ii \in BOOLEAN}

WorkspaceForgetArgs == {NullPtr} \cup {Ptr(n) : n \in Range(WorkspaceNames)}

\* comma-separated revision lists: none, the empty string, blank items
\* only, one revision, an unknown revision alone and after a known one, two
\* revisions around a blank item, a revision the store cannot read after
\* one it can
RevisionListArgs ==
    {NullPtr, Ptr(<<>>), Ptr(<<<<>>, <<>>>>), Ptr(<<<<15, 15>>>>)}
    \cup {Ptr(<<Hex(c)>>) : c \in Range(WcCommitIds(repo))}
    \cup {Ptr(<<Hex(c), <<15, 15>>>>) : c \in Range(WcCommitIds(repo))}
    \cup {Ptr(<<Hex(a), <<>>, Hex(b)>>) :
            a \in Range(WcCommitIds(repo)), b \in Range(RemoteHeads(repo))}
    \cup {Ptr(<<Hex(a), Hex(q)>>) :
            a \in Range(WcCommitIds(repo)),
            q \in Shown(store, repo) \ DOMAIN store}

\* the arguments workspaceAdd is tried with: every destination once and
\* with a failing read or creation of the directory, the usable ones also
\* with a name, and one that is not there yet also with revisions and with
\* each later step of the environment failing
WorkspaceAddArgs ==
    {[a |-> [NoArgs EXCEPT !.destination_path = d], fail |-> "none"] :
        d \in {NullPtr} \cup {Ptr(x) : x \in Destinations}}
    \cup {[a |-> [NoArgs EXCEPT !.destination_path = Ptr(d),
                                !.revision_ids = l],
           fail |-> "none"] :
            d \in {x \in Destinations : x.comps = <<"second">>},
            l \in RevisionListArgs}
    \cup {[a |-> [NoArgs EXCEPT !.destination_path = Ptr(d), !.name = Ptr(n)],
           fail |-> "none"] :
            d \in {x \in Destinations : x.comps[Len(x.comps)] \in Range(WorkspaceNames)},
            n \in {"default", "second"}}
    \cup {[a |-> [NoArgs EXCEPT !.destination_path = Ptr(d)], fail |-> f] :
            d \in Destinations, f \in {"read_dir", "create_dir"}}
    \cup {[a |-> [NoArgs EXCEPT !.destination_path = Ptr(d)], fail |-> f] :
            d \in {x \in Destinations : x.comps = <<"second">>},
            f \in {"init", "write", "commit"}}

\* the paths getFileDiff is tried with: none, two paths of the trees, a
\* path under the subtree and one that is no path
FileDiffArgs ==
    {NullPtr, Ptr("a.txt"), Ptr("c.txt"), Ptr("lib/d.txt"), Ptr("/a.txt")}

\* the revisions getRevisionDiff is tried with: none, the full id of every
\* head and an unknown one
RevisionDiffArgs ==
    {NullPtr, Ptr(<<15, 15>>)} \cup {Ptr(Hex(c)) : c \in Heads(repo)}

DoReadFileDiff == \E path \in FileDiffArgs : ReadFileDiff(path)

DoReadRevisionDiff ==
    \E revision_id \in RevisionDiffArgs : ReadRevisionDiff(revision_id)

DoSetBookmark ==
    \E a \in SetBookmarkArgs :
        SetBookmark(a.name, a.revision_id, a.allow_backwards, a.ignore_immutable)

DoWorkspaceForget ==
    \E workspace_name \in WorkspaceForgetArgs : WorkspaceForget(workspace_name)

DoWorkspaceAdd ==
    \E c \in WorkspaceAddArgs :
        WorkspaceAdd(c.a.destination_path, c.a.name, c.a.revision_ids, c.fail)

Next ==
    \/ DoSetBookmark
    \/ DoWorkspaceForget
    \/ DoWorkspaceAdd
    \/ ReadBranches
    \/ ReadWorkspaces
    \/ ReadLog
    \/ ReadChanges
    \/ ReadDiff
    \/ DoReadFileDiff
    \/ DoReadRevisionDiff
    \/ FreeResult

Spec == Init /\ [][Next]_vars

SpecDeep == InitDeep /\ [][Next]_vars

\* On the huge repository the calls are tried with the prefixes that tell
\* the searches apart: the full id of the root, which only the last commit
\* of the history has, and every prefix of the id of the working copy.
HugeSetBookmarkArgs ==
    {[NoArgs EXCEPT !.revision_id = Ptr(<<>>)],
     [NoArgs EXCEPT !.name = Ptr("main")],
     [NoArgs EXCEPT !.name = Ptr("dev"), !.revision_id = Ptr(Hex(RootCommitId)),
                    !.ignore_immutable = TRUE]}
    \cup {[NoArgs EXCEPT !.name = Ptr(n), !.revision_id = Ptr(p),
                         !.allow_backwards = ab, !.ignore_immutable = ii] :
            n \in {"dev"},
            p \in {SubSeq(Hex(c), 1, k) :
                      c \in Range(WcCommitIds(repo)), k \in 0..HexLen},
            ab \in BOOLEAN, ii \in BOOLEAN}

HugeWorkspaceAddArgs ==
    {[a |-> [NoArgs EXCEPT !.destination_path = d], fail |-> "none"] :
        d \in {NullPtr} \cup {Ptr(x) : x \in Destinations}}
    \cup {[a |-> [NoArgs EXCEPT
                    !.destination_path =
                        Ptr([abs |-> TRUE, comps |-> <<"repos", "third">>]),
                    !.revision_ids = Ptr(<<Hex(RootCommitId)>>)],
           fail |-> "none"]}
    \cup {[a |-> [NoArgs EXCEPT !.destination_path = Ptr(d)], fail |-> f] :
            d \in Destinations, f \in {"read_dir", "create_dir"}}

DoSetBookmarkHuge ==
    \E a \in HugeSetBookmarkArgs :
        SetBookmark(a.name, a.revision_id, a.allow_backwards, a.ignore_immutable)

DoWorkspaceAddHuge ==
    \E c \in HugeWorkspaceAddArgs :
        WorkspaceAdd(c.a.destination_path, c.a.name, c.a.revision_ids, c.fail)

NextHuge ==
    \/ DoSetBookmarkHuge
    \/ DoWorkspaceForget
    \/ DoWorkspaceAddHuge
    \/ ReadBranches
    \/ ReadWorkspaces
    \/ ReadLog
    \/ ReadChanges
    \/ ReadDiff
    \/ DoReadFileDiff
    \/ FreeResult

SpecHuge == InitHuge /\ [][NextHuge]_vars

\* A repository of two texts: A holds a.txt with text k1, the working copy
\* W on A holds it with text k2 and the executable bit set, so that the
\* file is changed whatever the two texts are
TextRepo(k1, k2) ==
    [store |-> (RootCommitId :> Commit(<<>>, 0)) @@
               (IdA :> Commit(<<RootCommitId>>, TextTreeBase + 2 * k1)) @@
               (IdW :> Commit(<<IdA>>, TextTreeBase + 2 * k2 + 1)),
     wc |-> ("default" :> IdW),
     bookmarks |-> ("dev" :> Absent) @@ ("main" :> Normal(IdA)),
     remote |-> <<>>,
     current |-> "default"]

TextRepos == {TextRepo(k1, k2) : k1, k2 \in 0..(NumTexts - 1)}

InitText == OpenRepo(TextRepos, 0)

\* the calls that render the diff of the file
NextText ==
    \/ ReadDiff
    \/ ReadFileDiff(Ptr("a.txt"))
    \/ FreeResult

SpecText == InitText /\ [][NextText]_vars

----------------------------------------------------------------------------
(* The commit graph, as the properties speak of it *)

\* the commits of S and the parents of those the store can read
WithParents(st, S) ==
    S \cup UNION {Range(ParentIds(st, c)) : c \in {x \in S : Readable(st, x)}}

RECURSIVE WithParentsTimes(_, _, _)
WithParentsTimes(st, S, n) ==
    IF n = 0 THEN S
    ELSE IF n = 1 THEN WithParents(st, S)
    ELSE LET mid == WithParentsTimes(st, S, n \div 2)
         IN  IF WithParents(st, mid) = mid THEN mid
             ELSE WithParentsTimes(st, mid, n - n \div 2)

RECURSIVE AncestorsFrom(_, _, _)
AncestorsFrom(st, S, n) ==
    LET T == WithParentsTimes(st, S, n)
    IN  IF WithParents(st, T) = T THEN T ELSE AncestorsFrom(st, T, 2 * n)

\* every commit reachable from the heads by parent pointers, the heads
\* included (ancestry in the graph, whatever its depth)
Ancestors(st, heads) == AncestorsFrom(st, heads, 8)

\* an immutable commit: the root, or an ancestor of a remote bookmark head
Immutable(st, r, c) ==
    c = RootCommitId \/ c \in Ancestors(st, Range(RemoteHeads(r)))

\* a walk that looks at `cap` distinct commits: a turn that pops a commit
\* already looked at does not count
DistinctTurn(st, w, cap) ==
    IF w.done THEN w
    ELSE IF Cardinality(w.visited) >= cap THEN [w EXCEPT !.done = TRUE]
    ELSE AncestryTurn(st, NoCommit, w)

RECURSIVE DistinctTurns(_, _, _, _)
DistinctTurns(st, w, cap, n) ==
    IF n = 0 THEN w
    ELSE IF n = 1 THEN DistinctTurn(st, w, cap)
    ELSE LET mid == DistinctTurns(st, w, cap, n \div 2)
         IN  IF mid.done THEN mid
             ELSE DistinctTurns(st, mid, cap, n - n \div 2)

RECURSIVE DistinctLoop(_, _, _, _)
DistinctLoop(st, w, cap, n) ==
    LET t == DistinctTurns(st, w, cap, n)
    IN  IF t.done THEN t ELSE DistinctLoop(st, t, cap, 2 * n)

\* the first `cap` distinct commits the backward walk from the heads visits
FirstVisited(st, heads, cap) ==
    DistinctLoop(st, Walk(heads, {}, NoCommit, FALSE), cap, 8).visited

\* the call whose result the state holds
SetBookmarkCalled ==
    call.op = "setBookmark" /\ ~call.name.null /\ ~call.revision_id.null

\* the commit its prefix resolved to in the snapshot the call started from
ResolvedTarget == FindTargetCommit(store, prev, call.revision_id.s)

\* the target the bookmark had when the call started
TargetBefore == prev.bookmarks[call.name.s]

IsMutation == call.op \in {"workspaceAdd", "workspaceForget", "setBookmark"}

----------------------------------------------------------------------------
(* Properties *)

\* C1: when setBookmark returns success, the handle's new snapshot maps the
\* bookmark to exactly the commit the prefix resolved to, as a normal single
\* target whatever it was before, and listBookmarks on it names the bookmark.
C1_SuccessSetsNormalTarget ==
    (SetBookmarkCalled /\ result = "ok") =>
        /\ ResolvedTarget # NoCommit
        /\ repo.bookmarks[call.name.s] = Normal(ResolvedTarget)
        /\ \E i \in DOMAIN ListBranches(repo) :
               ListBranches(repo)[i].name = call.name.s

\* a conflicted bookmark was set and is now a normal target
C1_Witness ==
    /\ SetBookmarkCalled
    /\ result = "ok"
    /\ TargetBefore.kind = "conflict"
    /\ repo.bookmarks[call.name.s] = Normal(ResolvedTarget)

C3_SameCommitAllowed ==
    (/\ SetBookmarkCalled
     /\ ~call.allow_backwards
     /\ TargetBefore.kind = "normal"
     /\ ResolvedTarget = TargetBefore.ids[1]
     /\ ~Immutable(store, prev, ResolvedTarget))
    => /\ result \in {"ok", "TransactionError"}
       /\ repo.bookmarks[call.name.s] = Normal(ResolvedTarget)

\* C4 as stated: setBookmark whose prefix resolves to the root commit fails
\* with ImmutableTarget for both values of ignoreImmutable, and no snapshot
\* produced by setBookmark has a bookmark on the root.
C4_RootAlwaysRejected ==
    /\ (SetBookmarkCalled /\ ResolvedTarget = RootCommitId)
           => result = "ImmutableTarget"
    /\ (SetBookmarkCalled /\ result = "ok")
           => repo.bookmarks[call.name.s] # Normal(RootCommitId)

\* C4 amended: setBookmark with ignoreImmutable=false whose prefix resolves
\* to the root commit fails with ImmutableTarget and leaves the snapshot as
\* it was, and no snapshot produced by setBookmark with ignoreImmutable=false
\* has the bookmark on the root.
C4_RootRejectedUnlessIgnored ==
    /\ (SetBookmarkCalled /\ ~call.ignore_immutable
            /\ ResolvedTarget = RootCommitId)
           => result = "ImmutableTarget" /\ repo = prev
    /\ (SetBookmarkCalled /\ ~call.ignore_immutable /\ result = "ok")
           => repo.bookmarks[call.name.s] # Normal(RootCommitId)

\* the root was asked for without the override and rejected
C4_Witness ==
    /\ SetBookmarkCalled
    /\ ~call.ignore_immutable
    /\ ResolvedTarget = RootCommitId
    /\ result = "ImmutableTarget"

\* C5: with ignoreImmutable=false, setBookmark fails with ImmutableTarget
\* whenever the resolved target is an ancestor of, or equal to, a remote
\* bookmark head and is among the first 200 distinct commits the backward
\* walk from all remote heads visits (a commit met again through a second
\* parent path does not use up the cap).
C5_FirstTwoHundredDistinct ==
    (/\ SetBookmarkCalled
     /\ ~call.ignore_immutable
     /\ ResolvedTarget # NoCommit
     /\ ResolvedTarget \in Ancestors(store, Range(RemoteHeads(prev)))
     /\ ResolvedTarget \in FirstVisited(store, RemoteHeads(prev), 200))
    => result = "ImmutableTarget"

\* C6: with ignoreImmutable=true, a non-root target that is an ancestor of a
\* remote bookmark head is never rejected with ImmutableTarget, and the call
\* succeeds (its transaction committing) whenever the backwards-move check
\* passes or allowBackwards is true.
C6_IgnoreImmutableBypasses ==
    (/\ SetBookmarkCalled
     /\ call.ignore_immutable
     /\ ResolvedTarget # NoCommit
     /\ ResolvedTarget # RootCommitId
     /\ ResolvedTarget \in Ancestors(store, Range(RemoteHeads(prev))))
    => /\ result # "ImmutableTarget"
       /\ (call.allow_backwards
             \/ ~IsBackwardsWalk(store, prev, call.name.s, ResolvedTarget))
          => /\ result \in {"ok", "TransactionError"}
             /\ result = "ok"
                  => repo.bookmarks[call.name.s] = Normal(ResolvedTarget)

\* a bookmark was set on a pushed commit with the override
C6_Witness ==
    /\ SetBookmarkCalled
    /\ call.ignore_immutable
    /\ ResolvedTarget # RootCommitId
    /\ ResolvedTarget \in Ancestors(store, Range(RemoteHeads(prev)))
    /\ result = "ok"
    /\ repo.bookmarks[call.name.s] = Normal(ResolvedTarget)

\* C7: setBookmark with both flags false passes every gate (so it succeeds
\* when its transaction commits) whenever the prefix resolves to a commit
\* that is not immutable and the bookmark either has no target or has a
\* target of which the resolved commit is not an ancestor.
C7_ForwardMoveSucceeds ==
    (/\ SetBookmarkCalled
     /\ ~call.allow_backwards
     /\ ~call.ignore_immutable
     /\ ResolvedTarget # NoCommit
     /\ ~Immutable(store, prev, ResolvedTarget)
     /\ \/ TargetBefore.kind = "absent"
        \/ /\ TargetBefore.kind = "normal"
           /\ ResolvedTarget \notin Ancestors(store, {TargetBefore.ids[1]}))
    => /\ result \in {"ok", "TransactionError"}
       /\ result = "ok" => repo.bookmarks[call.name.s] = Normal(ResolvedTarget)

\* a bookmark moved forward from its target to another commit
C7_Witness ==
    /\ SetBookmarkCalled
    /\ ~call.allow_backwards
    /\ ~call.ignore_immutable
    /\ TargetBefore.kind = "normal"
    /\ ResolvedTarget # TargetBefore.ids[1]
    /\ TargetBefore.ids[1] \in Ancestors(store, {ResolvedTarget})
    /\ result = "ok"

\* C8: whenever workspaceAdd, workspaceForget or setBookmark returns an
\* error, the handle's snapshot is the one it held before the call, with the
\* same workspace map and bookmark map.
C8_ErrorKeepsSnapshot ==
    (IsMutation /\ result # "ok") =>
        /\ repo = prev
        /\ repo.wc = prev.wc
        /\ repo.bookmarks = prev.bookmarks

\* workspaceAdd failed in its transaction, after the workspace was
\* initialised by an operation of its own
C8_Witness ==
    /\ call.op = "workspaceAdd"
    /\ result = "TransactionError"
    /\ ops > prev.op
    /\ repo = prev

C10_CannotForgetCurrent ==
    (/\ call.op = "workspaceForget"
     /\ ~call.name.null
     /\ call.name.s = current_workspace)
    => result = "CannotForgetCurrent" /\ repo = prev

\* the current workspace is not in the View and its forget was refused
C10_Witness ==
    /\ call.op = "workspaceForget"
    /\ ~call.name.null
    /\ call.name.s = current_workspace
    /\ current_workspace \notin DOMAIN repo.wc
    /\ result = "CannotForgetCurrent"

\* C11: workspaceForget of a name other than the current workspace fails
\* with NotFound when the View does not register the name (so also when it
\* is repeated right after it succeeded); when it succeeds the new snapshot
\* no longer registers the name and keeps every other registration.
C11_ForgetRemovesOrNotFound ==
    (/\ call.op = "workspaceForget"
     /\ ~call.name.null
     /\ call.name.s # current_workspace)
    => /\ call.name.s \notin DOMAIN prev.wc
            => result = "NotFound" /\ repo = prev
       /\ result = "NotFound" => call.name.s \notin DOMAIN prev.wc
       /\ result = "ok"
            => /\ call.name.s \in DOMAIN prev.wc
               /\ call.name.s \notin DOMAIN repo.wc
               /\ WorkspaceForgetGate(repo, current_workspace, call.name.s)
                      = "NotFound"

\* a workspace the repository was opened with was forgotten, and forgetting
\* it again failed with NotFound
C11_Witness ==
    /\ call.op = "workspaceForget"
    /\ ~call.name.null
    /\ call.name.s = "second"
    /\ IdW2 \in DOMAIN store
    /\ prev.op > 0
    /\ "second" \notin DOMAIN prev.wc
    /\ result = "NotFound"

\* the arguments of the workspaceAdd call the state holds the result of
AddedName == WsName(call.destination_path.s, call.name)

AddedSpecs ==
    RevisionSpecs(IF call.revision_ids.null THEN <<>> ELSE call.revision_ids.s)

\* C12: after a successful workspaceAdd the new snapshot registers the
\* workspace name to a commit the call created, whose parents are all the
\* resolved parents, in order, and whose tree is the first parent's tree.
C12_NewCommitOnAllParents ==
    [][(call'.op = "workspaceAdd" /\ result' = "ok") =>
        LET ws == WsName(call'.destination_path.s, call'.name)
            specs == RevisionSpecs(IF call'.revision_ids.null THEN <<>>
                                   ELSE call'.revision_ids.s)
            parent_ids == ParentIdsFor(store, repo, current_workspace, specs)
        IN  /\ ws \in DOMAIN repo'.wc
            /\ repo'.wc[ws] \notin DOMAIN store
            /\ repo'.wc[ws] \in DOMAIN store'
            /\ store'[repo'.wc[ws]].parents = parent_ids
            /\ store'[repo'.wc[ws]].tree = store[parent_ids[1]].tree]_vars

\* C13: a workspaceAdd without explicit revisions (a null list, an empty
\* one, blank items only) gives the new commit the parent ids of the current
\* workspace's working-copy commit, or the root alone if there are none;
\* with explicit revisions, one that does not resolve fails the whole call,
\* with NotFound once the destination was accepted.
C13_DefaultAndExplicitParents ==
    (call.op = "workspaceAdd" /\ ~call.destination_path.null) =>
        /\ (AddedSpecs = <<>> /\ result = "ok")
             => store[repo.wc[AddedName]].parents =
                    (IF ParentIds(store, prev.wc[current_workspace]) = <<>>
                     THEN <<RootCommitId>>
                     ELSE ParentIds(store, prev.wc[current_workspace]))
        /\ (\E i \in DOMAIN AddedSpecs :
                ResolveSpec(store, prev, AddedSpecs[i]) = NoCommit)
             => /\ result # "ok"
                /\ repo = prev
                /\ result \notin {"InvalidDestination", "IOError"}
                      => result = "NotFound"

\* C14: workspaceAdd rejects a destination that is a file, or a directory
\* with an entry other than .jj, with InvalidDestination, and then nothing
\* changes and no workspace is registered; it rejects no other destination
\* that way; and it succeeds only on a destination that did not exist (which
\* is then created) or was a directory with no entry other than .jj.
C14_DestinationAccepted ==
    [][(call'.op = "workspaceAdd" /\ ~call'.destination_path.null) =>
        LET path == AbsDestPath(call'.destination_path.s)
        IN  /\ fs[path] \in {"file", "nonempty"}
                 => /\ result' = "InvalidDestination"
                    /\ repo' = repo /\ fs' = fs /\ store' = store
            /\ result' = "InvalidDestination"
                 => fs[path] \in {"file", "nonempty"}
            /\ result' = "ok"
                 => /\ fs[path] \in {"absent", "empty"}
                    /\ fs'[path] # "absent"]_vars

\* a directory with an entry of its own was refused
C14_Witness ==
    /\ call.op = "workspaceAdd"
    /\ ~call.destination_path.null
    /\ fs[AbsDestPath(call.destination_path.s)] = "nonempty"
    /\ result = "InvalidDestination"
    /\ repo = prev

\* the commits the store can read that are reachable from a workspace's
\* working-copy commit
ReachableCommits(st, r) ==
    {c \in Ancestors(st, Range(WcCommitIds(r))) : Readable(st, c)}

\* p is the beginning of the digit string h
IsPrefixOf(p, h) == Len(p) <= Len(h) /\ SubSeq(h, 1, Len(p)) = p

\* C15: both resolvers return C for the full hex id of every commit C
\* reachable from a working-copy commit, and a commit either of them returns
\* for a prefix has a hex id that begins with the prefix and is reachable
\* from a working-copy commit (in every snapshot the handle comes to hold,
\* looked at when it is ready for a call); a successful setBookmark leaves
\* the bookmark on such a commit.
C15_ResolvesFullIdAndPrefix ==
    /\ call.op = "idle" => \A c \in ReachableCommits(store, repo) :
           /\ FindTargetCommit(store, repo, Hex(c)) = c
           /\ ResolveSpec(store, repo, Hex(c)) = c
    /\ call.op = "idle" => \A p \in RevisionPrefixes(store, repo) :
           /\ FindTargetCommit(store, repo, p) # NoCommit
                => /\ IsPrefixOf(p, Hex(FindTargetCommit(store, repo, p)))
                   /\ FindTargetCommit(store, repo, p)
                          \in ReachableCommits(store, repo)
           /\ ResolveSpec(store, repo, p) # NoCommit
                => /\ IsPrefixOf(p, Hex(ResolveSpec(store, repo, p)))
                   /\ ResolveSpec(store, repo, p)
                          \in Ancestors(store, Range(WcCommitIds(repo)))
    /\ (SetBookmarkCalled /\ result = "ok")
         => \E c \in ReachableCommits(store, prev) :
                /\ IsPrefixOf(call.revision_id.s, Hex(c))
                /\ repo.bookmarks[call.name.s] = Normal(c)

\* a bookmark was set by a one-digit prefix that several reachable commits
\* share
C15_Witness ==
    /\ SetBookmarkCalled
    /\ result = "ok"
    /\ Len(call.revision_id.s) = 1
    /\ Cardinality({c \in ReachableCommits(store, prev) :
                       IsPrefixOf(call.revision_id.s, Hex(c))}) > 1
    /\ IsPrefixOf(call.revision_id.s, Hex(repo.bookmarks[call.name.s].ids[1]))

----------------------------------------------------------------------------
(* C16: the search depth cap of the prefix resolutions *)

\* the prefix p has a match among the first MAX_REVISION_SEARCH_DEPTH
\* commits a search from the workspace heads of the snapshot the call began
\* with visits (a match on a head itself is looked for first)
MatchWithinCap(p) ==
    \/ \E c \in Range(WcCommitIds(prev)) : StartsWith(Hex(c), p)
    \/ \E c \in FirstVisited(store, WcCommitIds(prev), MAX_REVISION_SEARCH_DEPTH) :
           StartsWith(Hex(c), p)

\* C16: every prefix resolution gives up once MAX_REVISION_SEARCH_DEPTH commits
\* were visited without a match: a setBookmark call whose prefix has no match
\* among them fails with NotFound, and so does a workspaceAdd call that came
\* to resolve an explicit revision with no match among them, even when a
\* commit further back has the prefix.
C16_SearchStopsAtCap ==
    /\ (SetBookmarkCalled /\ result # "NotFound")
           => MatchWithinCap(call.revision_id.s)
    /\ (/\ call.op = "workspaceAdd"
        /\ ~call.destination_path.null
        /\ result \notin {"NotFound", "InvalidDestination", "IOError"})
           => \A i \in 1..Len(AddedSpecs) : MatchWithinCap(AddedSpecs[i])

----------------------------------------------------------------------------
(* C17: ambiguous prefixes *)

\* the commits in the order a stack visits them: the last one pushed comes
\* first, a commit is visited once, and the parents of a commit are pushed,
\* in their order, when the commit is visited
RECURSIVE StackOrder(_, _, _)
StackOrder(st, stack, seen) ==
    IF stack = <<>> THEN <<>>
    ELSE LET c == stack[Len(stack)]
             below == SubSeq(stack, 1, Len(stack) - 1)
         IN  IF c \in seen THEN StackOrder(st, below, seen)
             ELSE <<c>> \o StackOrder(st,
                               below \o (IF Readable(st, c)
                                         THEN ParentIds(st, c) ELSE <<>>),
                               seen \cup {c})

\* the places of the order whose commit has the prefix p
MatchesIn(order, p) == {i \in 1..Len(order) : IsPrefixOf(p, Hex(order[i]))}

\* the first of them
FirstMatchIn(order, p) ==
    order[CHOOSE i \in MatchesIn(order, p) : \A j \in MatchesIn(order, p) : i <= j]

\* the order as the call whose result the state holds found it
OrderBefore == StackOrder(store, WcCommitIds(prev), {})

\* C17: when several commits reachable from the workspace heads have the
\* prefix, the resolution does not fail and gives the first of them in stack
\* order, the workspace heads being pushed in View order; the empty prefix
\* gives the workspace head pushed last.  So for the target of setBookmark,
\* on which a successful call leaves the bookmark, and so for every explicit
\* revision of a workspaceAdd call that came to resolve them.
C17_FirstMatchInStackOrder ==
    /\ SetBookmarkCalled =>
        LET p == call.revision_id.s
            heads == WcCommitIds(prev)
        IN  /\ Cardinality(MatchesIn(OrderBefore, p)) >= 2
                 => /\ result # "NotFound"
                    /\ ResolvedTarget = FirstMatchIn(OrderBefore, p)
                    /\ result = "ok" =>
                         repo.bookmarks[call.name.s] =
                             Normal(FirstMatchIn(OrderBefore, p))
            /\ (p = <<>> /\ heads # <<>>)
                 => ResolvedTarget = heads[Len(heads)]
    /\ (call.op = "workspaceAdd" /\ ~call.destination_path.null
        /\ result \notin {"InvalidDestination", "IOError"}) =>
        LET heads == WcCommitIds(prev)
        IN  \A i \in 1..Len(AddedSpecs) :
               /\ Cardinality(MatchesIn(OrderBefore, AddedSpecs[i])) >= 2
                    => ResolveSpec(store, prev, AddedSpecs[i]) =
                           FirstMatchIn(OrderBefore, AddedSpecs[i])
               /\ (AddedSpecs[i] = <<>> /\ heads # <<>>)
                    => ResolveSpec(store, prev, AddedSpecs[i]) = heads[Len(heads)]

----------------------------------------------------------------------------
(* C18, C19: the log *)

\* the entry e describes the commit c
Describes(e, c) == IsPrefixOf(e.id, Hex(c))

\* C18: getLog returns at most 100 entries, no two of them describe the same
\* commit, and every one describes a commit reachable by parent pointers from
\* the working-copy commit of some workspace.
C18_LogBoundedDistinctReachable ==
    call.op = "getLog" =>
        LET reachable == ReachableCommits(store, repo)
        IN  /\ Len(out) <= 100
            /\ \A i, j \in 1..Len(out) : i # j => out[i].id # out[j].id
            /\ \A i \in 1..Len(out) :
                   \E c \in reachable : Describes(out[i], c)

\* the log of a repository with more than 100 reachable commits was read and
\* has 100 entries
C18_Witness ==
    /\ call.op = "getLog"
    /\ Cardinality(ReachableCommits(store, repo)) > 100
    /\ Len(out) = 100

\* the local bookmarks that target the commit c in the snapshot r: c is the
\* target, or one of the sides of a conflicted target
BookmarksOn(r, c) ==
    {b \in DOMAIN r.bookmarks : c \in Range(r.bookmarks[b].ids)}

\* C19: when at most 100 commits are reachable from the working-copy commits,
\* getLog returns exactly one entry for each of them and no other; the entry
\* of a commit is marked isWorkingCopy iff the commit is the working-copy
\* commit of some workspace, lists exactly the local bookmarks that target
\* the commit, and is marked isRoot iff the commit is the root.  The log of
\* the snapshot a successful setBookmark leaves lists the bookmark on the
\* entry of the new target and on no entry of an old one.
C19_LogExactAndMarked ==
    /\ call.op = "getLog" =>
        LET reachable == ReachableCommits(store, repo)
        IN  Cardinality(reachable) <= 100 =>
              /\ Len(out) = Cardinality(reachable)
              /\ \A c \in reachable :
                   \E i \in 1..Len(out) :
                     /\ Describes(out[i], c)
                     /\ out[i].is_working_copy
                          <=> (\E ws \in DOMAIN repo.wc : repo.wc[ws] = c)
                     /\ Range(out[i].bookmarks) = BookmarksOn(repo, c)
                     /\ Len(out[i].bookmarks) = Cardinality(BookmarksOn(repo, c))
                     /\ out[i].is_root <=> (c = RootCommitId)
              /\ \A i \in 1..Len(out) : \E c \in reachable : Describes(out[i], c)
    /\ (SetBookmarkCalled /\ result = "ok") =>
        LET log == GetLog(store, repo)
            old == Range(TargetBefore.ids) \ {ResolvedTarget}
        IN  Cardinality(ReachableCommits(store, repo)) <= 100 =>
              /\ \E i \in 1..Len(log) :
                   /\ Describes(log[i], ResolvedTarget)
                   /\ call.name.s \in Range(log[i].bookmarks)
              /\ \A i \in 1..Len(log) :
                   (\E c \in old : Describes(log[i], c))
                     => call.name.s \notin Range(log[i].bookmarks)

\* the log was read after a bookmark was put on a working-copy commit: it
\* has an entry that is a working copy and lists a bookmark, and the entry
\* of the root
C19_Witness ==
    /\ call.op = "getLog"
    /\ ops > 0
    /\ \E i \in 1..Len(out) : out[i].is_working_copy /\ out[i].bookmarks # <<>>
    /\ \E i \in 1..Len(out) : out[i].is_root /\ ~out[i].is_working_copy
    /\ \E i \in 1..Len(out) : Len(out[i].bookmarks) = 2

----------------------------------------------------------------------------
(* C20: the classification of the diff entries *)

\* the commit whose changes the call whose result the state holds showed
ShownCommit ==
    IF call.op = "getRevisionDiff"
    THEN FindTargetCommit(store, repo, call.revision_id.s)
    ELSE repo.wc[current_workspace]

\* the two sides of the path p in that comparison: the first parent's tree
\* and the commit's own
BeforeSide(p) ==
    ValueAt(MergedTree(store, ParentIds(store, ShownCommit)[1]), p)

AfterSide(p) == ValueAt(MergedTree(store, ShownCommit), p)

\* the paths of its diff entries: the sides differ (and both can be read);
\* none when the commit has no parent; getFileDiff looks at its path only
DiffEntryPaths ==
    IF ParentIds(store, ShownCommit) = <<>> THEN {}
    ELSE {p \in Range(Paths) :
            /\ BeforeSide(p) # AfterSide(p)
            /\ UnreadableTree \notin {BeforeSide(p), AfterSide(p)}
            /\ call.op = "getFileDiff" => p = call.name.s}

Added(p) == IsAbsent(BeforeSide(p)) /\ ~IsAbsent(AfterSide(p))
Deleted(p) == ~IsAbsent(BeforeSide(p)) /\ IsAbsent(AfterSide(p))
Modified(p) == ~IsAbsent(BeforeSide(p)) /\ ~IsAbsent(AfterSide(p))

\* the places of the text s where the text sub stands
Occurs(sub, s) ==
    {i \in 1..(Len(s) - Len(sub) + 1) : SubSeq(s, i, i + Len(sub) - 1) = sub}

\* the text s goes on with sub from the place i
GoesOn(s, i, sub) == SubSeq(s, i, i + Len(sub) - 1) = sub

BlockHead(p) == "diff --git a/" \o p \o " b/" \o p \o "\n"

\* C20: listWorkingCopyChanges reports exactly one status for every diff
\* entry: added iff the before side is absent and the after side present,
\* deleted iff the before side is present and the after side absent,
\* modified iff both are present; and the text of getDiff, getFileDiff and
\* getRevisionDiff has exactly one block for every diff entry, which goes on
\* with `new file`, with `deleted file` or with the two markers of a
\* modified file by the same rule.
C20_ClassifiedBySides ==
    /\ (call.op = "listWorkingCopyChanges" /\ result = "ok") =>
         /\ \A p \in DiffEntryPaths :
              /\ Cardinality({i \in 1..Len(out) : out[i].path = p}) = 1
              /\ \A i \in 1..Len(out) :
                   out[i].path = p =>
                     /\ out[i].status \in {"added", "deleted", "modified"}
                     /\ out[i].status = "added" <=> Added(p)
                     /\ out[i].status = "deleted" <=> Deleted(p)
                     /\ out[i].status = "modified" <=> Modified(p)
         /\ \A i \in 1..Len(out) : out[i].path \in DiffEntryPaths
    /\ (call.op \in {"getDiff", "getFileDiff", "getRevisionDiff"}
        /\ result = "ok") =>
         /\ \A p \in DiffEntryPaths :
              /\ Cardinality(Occurs(BlockHead(p), out)) = 1
              /\ \A i \in Occurs(BlockHead(p), out) :
                   LET next == i + Len(BlockHead(p))
                   IN  /\ GoesOn(out, next, "new file\n--- /dev/null\n")
                            <=> Added(p)
                       /\ GoesOn(out, next, "deleted file\n--- a/" \o p \o "\n")
                            <=> Deleted(p)
                       /\ GoesOn(out, next,
                                 "--- a/" \o p \o "\n+++ b/" \o p \o "\n")
                            <=> Modified(p)
         /\ \A p \in Range(Paths) \ DiffEntryPaths :
              Occurs(BlockHead(p), out) = {}

\* the changes of a working copy were listed that has an added, a deleted
\* and a modified file
C20_Witness ==
    /\ call.op = "listWorkingCopyChanges"
    /\ result = "ok"
    /\ \E p \in DiffEntryPaths : Added(p)
    /\ \E p \in DiffEntryPaths : Deleted(p)
    /\ \E p \in DiffEntryPaths : Modified(p)
    /\ Len(out) = 3

----------------------------------------------------------------------------
(* The rendered hunk *)

\* a text cut at every "\n"; what follows the last one is a piece only
\* when it is not empty
RECURSIVE PiecesFrom(_, _)
PiecesFrom(s, piece) ==
    IF s = "" THEN (IF piece = "" THEN <<>> ELSE <<piece>>)
    ELSE IF Head(s) = "\n" THEN <<piece>> \o PiecesFrom(Tail(s), "")
    ELSE PiecesFrom(Tail(s), piece \o Head(s))

\* a diff of the file has been rendered
DiffRendered ==
    /\ call.op \in {"getDiff", "getFileDiff"}
    /\ result = "ok"

\* the lines of the two texts of the repository, as it was built
TextOfCommit(c) == TextLines((store[c].tree - TextTreeBase) \div 2)
BeforeText == TextOfCommit(store[repo.wc[current_workspace]].parents[1])
AfterText == TextOfCommit(repo.wc[current_workspace])

\* the rendered lines after the three lines of the file header (getDiff
\* closes its block with one empty line)
HunkLines ==
    LET pieces == PiecesFrom(out, "")
        last == IF call.op = "getDiff" THEN Len(pieces) - 1 ELSE Len(pieces)
    IN  SubSeq(pieces, 4, last)

\* the hunk without its header line
HunkBody == IF HunkLines = <<>> THEN <<>> ELSE Tail(HunkLines)

\* every line of `lines` behind the mark
Marked(mark, lines) == [i \in 1..Len(lines) |-> mark \o lines[i]]

\* C21: when the two texts are the same sequence of at least one line, the
\* body of the rendered hunk is one line per input line, in order, each
\* behind a space, and so holds no "+" and no "-" line
C21_IdenticalTextsOnlyContext ==
    (DiffRendered /\ BeforeText = AfterText /\ Len(BeforeText) >= 1)
        => HunkBody = Marked(" ", BeforeText)

C21_Witness ==
    /\ DiffRendered
    /\ BeforeText = AfterText
    /\ Len(BeforeText) >= 2
    /\ BeforeText[1] # BeforeText[2]
    /\ Len(HunkBody) = Len(BeforeText)

\* the two texts have no line in common
DisjointTexts ==
    \A i \in 1..Len(BeforeText) : \A j \in 1..Len(AfterText) :
        BeforeText[i] # AfterText[j]

\* C22 as stated: for two texts with no line in common the body is every
\* before-line behind "-", in order, and then every after-line behind "+",
\* in order, with no context line
C22_DeletionsThenInsertions ==
    (DiffRendered /\ DisjointTexts)
        => HunkBody = Marked("-", BeforeText) \o Marked("+", AfterText)

\* C22: for two texts with no line in common the body holds no context
\* line and is every after-line behind "+", in order, and then every
\* before-line behind "-", in order: no deletion precedes an insertion
C22_InsertionsThenDeletions ==
    (DiffRendered /\ DisjointTexts)
        => HunkBody = Marked("+", AfterText) \o Marked("-", BeforeText)

C22_Witness ==
    /\ DiffRendered
    /\ DisjointTexts
    /\ Len(BeforeText) >= 2
    /\ Len(AfterText) >= 2
    /\ BeforeText[1] # BeforeText[2]
    /\ HunkBody[1] = "+" \o AfterText[1]
    /\ HunkBody[Len(HunkBody)] = "-" \o BeforeText[Len(BeforeText)]

\* a number in decimal digits
RECURSIVE Decimal(_)
Decimal(n) ==
    LET digit == <<"0", "1", "2", "3", "4", "5", "6", "7", "8", "9">>[(n % 10) + 1]
    IN  IF n < 10 THEN digit ELSE Decimal(n \div 10) \o digit

\* the lines of the body behind one of the marks, without the mark
RECURSIVE Side(_, _)
Side(body, marks) ==
    IF body = <<>> THEN <<>>
    ELSE (IF SubSeq(body[1], 1, 1) \in marks
          THEN <<SubSeq(body[1], 2, Len(body[1]))>> ELSE <<>>)
         \o Side(Tail(body), marks)

\* C25: for two texts of N and M lines, N + M > 0, the rendered hunk is the
\* one header "@@ -1,N +1,M @@" and a body of at most N + M lines, each
\* behind " ", "-" or "+", in which the " " and "-" lines are the
\* before-lines in order and the " " and "+" lines the after-lines in order
C25_ValidEditScript ==
    (DiffRendered /\ Len(BeforeText) + Len(AfterText) > 0)
        => LET hunk == HunkLines
               body == IF hunk = <<>> THEN <<>> ELSE Tail(hunk)
           IN  /\ hunk # <<>>
               /\ hunk[1] = "@@ -1," \o Decimal(Len(BeforeText)) \o " +1,"
                                 \o Decimal(Len(AfterText)) \o " @@"
               /\ Len(body) <= Len(BeforeText) + Len(AfterText)
               /\ \A k \in 1..Len(body) :
                      /\ Len(body[k]) >= 1
                      /\ SubSeq(body[k], 1, 1) \in {" ", "-", "+"}
               /\ Side(body, {" ", "-"}) = BeforeText
               /\ Side(body, {" ", "+"}) = AfterText

\* a text changed in the middle: context, deletion and insertion in one body
C25_Witness ==
    /\ DiffRendered
    /\ Len(BeforeText) = 3
    /\ Len(AfterText) = 2
    /\ BeforeText[1] = AfterText[1]
    /\ BeforeText[3] = AfterText[2]
    /\ Side(HunkBody, {" "}) = AfterText
    /\ Side(HunkBody, {"-"}) = <<BeforeText[2]>>

\* C23: in every step the target of a bookmark changes only when the step
\* is a successful setBookmark on that very name, and then to a commit: a
\* bookmark that is set is never unset by any call
C23_BookmarkMovesOnlyBySetBookmark ==
    [][\A b \in DOMAIN repo.bookmarks :
          /\ b \in DOMAIN repo'.bookmarks
          /\ repo.bookmarks[b] # Absent => repo'.bookmarks[b] # Absent
          /\ repo'.bookmarks[b] # repo.bookmarks[b]
                => /\ call'.op = "setBookmark"
                   /\ call'.name = Ptr(b)
                   /\ result' = "ok"
                   /\ repo'.bookmarks[b].kind = "normal"]_vars

\* after an earlier mutation a bookmark that was on a commit is on another
C23_Witness ==
    /\ SetBookmarkCalled
    /\ result = "ok"
    /\ prev.op >= 1
    /\ TargetBefore.kind = "normal"
    /\ repo.bookmarks[call.name.s].kind = "normal"
    /\ repo.bookmarks[call.name.s] # TargetBefore

----------------------------------------------------------------------------
(* C24: the walks end *)

\* the number of parent ids the commits of the store hold
RECURSIVE SumParents(_, _)
SumParents(st, ids) ==
    IF ids = {} THEN 0
    ELSE LET c == CHOOSE x \in ids : TRUE
         IN  Len(ParentIds(st, c)) + SumParents(st, ids \ {c})

\* no walk pushes more ids than this: its heads and, once for every commit
\* the store can read, the parents of the commit; one more turn finds the
\* stack empty
TurnBound(st, heads) == Len(heads) + SumParents(st, DOMAIN st) + 1

\* one turn of the walk of jj_set_bookmark and jj_get_revision_diff
\* ("target") or of resolve_revision_specs ("spec")
PrefixTurn(kind, st, p, w) ==
    IF kind = "target" THEN FindTargetTurn(st, p, w) ELSE ResolveSpecTurn(st, p, w)

\* the walk is left within n turns, no turn forgets a visited commit, and
\* parents are pushed only in the turn that pops their commit for the first
\* time
RECURSIVE EndsExpandingOnce(_, _, _, _, _)
EndsExpandingOnce(kind, st, p, w, n) ==
    IF w.done THEN TRUE
    ELSE IF n = 0 THEN FALSE
    ELSE LET next == PrefixTurn(kind, st, p, w)
         IN  /\ w.visited \subseteq next.visited
             /\ (w.to_visit # <<>> /\ next.to_visit # Pop(w.to_visit))
                    => Top(w.to_visit) \notin w.visited
             /\ EndsExpandingOnce(kind, st, p, next, n - 1)

\* the walk for prefix p from the workspace heads of the snapshot the call
\* began with
PrefixWalkEnds(kind, p) ==
    EndsExpandingOnce(kind, store, p,
                      Walk(WcCommitIds(prev), {}, NoCommit, FALSE),
                      TurnBound(store, WcCommitIds(prev)))

\* what a resolution that passes over the commits the store cannot read ends
\* in: a commit, or nothing
DefiniteOutcome(c) == c = NoCommit \/ Readable(store, c)

\* C24: every walk ends within the turns its finite graph allows, a prefix
\* walk expanding no commit twice, and in a definite outcome; a commit the
\* store cannot read is passed over, so that a resolution gives a commit the
\* store can read or NotFound, and the call one of its own results
C24_WalksEndSkippingUnreadable ==
    /\ SetBookmarkCalled
         => /\ PrefixWalkEnds("target", call.revision_id.s)
            /\ DefiniteOutcome(ResolvedTarget)
            /\ result = "NotFound" <=> ResolvedTarget = NoCommit
            /\ result \in {"ok", "NotFound", "ImmutableTarget", "BackwardsMove",
                           "TransactionError"}
    /\ (call.op = "getRevisionDiff" /\ ~call.revision_id.null)
         => /\ PrefixWalkEnds("target", call.revision_id.s)
            /\ DefiniteOutcome(ResolvedTarget)
            /\ ResolvedTarget = NoCommit => result = "NotFound"
            /\ result \in {"ok", "NotFound"}
    /\ (call.op = "workspaceAdd" /\ ~call.destination_path.null
        /\ result \notin {"InvalidDestination", "IOError"})
         => \A i \in 1..Len(AddedSpecs) :
               /\ PrefixWalkEnds("spec", AddedSpecs[i])
               /\ DefiniteOutcome(ResolveSpec(store, prev, AddedSpecs[i]))
    /\ call.op = "getLog"
         => LogTurns(store, prev,
                     [to_visit |-> GetCommits(store, WcCommitIds(prev)),
                      visited |-> {}, revisions |-> <<>>, done |-> FALSE],
                     TurnBound(store, WcCommitIds(prev))).done

----------------------------------------------------------------------------
(* C26, C27: the gates of setBookmark *)

\* the resolved target is an ancestor of, or is, the commit the bookmark
\* was on
BehindBookmark ==
    /\ TargetBefore.kind = "normal"
    /\ ResolvedTarget \in Ancestors(store, {TargetBefore.ids[1]})

C27_NeverOverReported ==
    SetBookmarkCalled =>
        /\ (result = "ImmutableTarget" /\ ResolvedTarget # RootCommitId)
             => /\ ~call.ignore_immutable
                /\ ResolvedTarget \in Ancestors(store, Range(RemoteHeads(prev)))
        /\ result = "BackwardsMove"
             => /\ ~call.allow_backwards
                /\ BehindBookmark

\* in a long history, a commit below a pushed one was rejected as immutable
C27_Witness ==
    /\ SetBookmarkCalled
    /\ result = "ImmutableTarget"
    /\ ResolvedTarget # RootCommitId
    /\ ResolvedTarget \notin Range(RemoteHeads(prev))
    /\ ResolvedTarget \in Ancestors(store, Range(RemoteHeads(prev)))
    /\ Cardinality(DOMAIN store) > ImmutableMaxDepth \div 2

----------------------------------------------------------------------------
(* C28, C29, C30: workspaces and frames *)

\* the workspace names in ascending byte order, pair by pair
NameBefore ==
    {<<"default", "second">>, <<"default", "third">>, <<"second", "third">>}

\* C28: a call that began with the current workspace registered in the View
\* leaves it registered; and whenever it is registered, listWorkspaces has
\* exactly one entry for every registered name, with the one working-copy
\* commit of the name, in strictly ascending name order, and exactly one
\* entry, that of the current workspace, is marked current
C28_CurrentWorkspaceStaysListed ==
    /\ current_workspace \in DOMAIN prev.wc
         => current_workspace \in DOMAIN repo.wc
    /\ current_workspace \in DOMAIN repo.wc
         => LET entries == ListWorkspaces(repo, current_workspace)
            IN  /\ \A i \in 1..(Len(entries) - 1) :
                       <<entries[i].name, entries[i + 1].name>> \in NameBefore
                /\ {entries[i].name : i \in 1..Len(entries)} = DOMAIN repo.wc
                /\ \A i \in 1..Len(entries) :
                       entries[i].commit_id = Hex(repo.wc[entries[i].name])
                /\ Cardinality({i \in 1..Len(entries) : entries[i].is_current}) = 1
                /\ \A i \in 1..Len(entries) :
                       entries[i].is_current <=> entries[i].name = current_workspace

\* after a workspaceAdd three workspaces are listed, the current one first
C28_Witness ==
    /\ call.op = "listWorkspaces"
    /\ repo.op >= 2
    /\ Len(out) = 3
    /\ out[1].is_current
    /\ ~out[2].is_current
    /\ ~out[3].is_current

\* the registrations of the workspaces other than `name` are the same in
\* the two snapshots
SameOtherWorkspaces(before, after, name) ==
    /\ DOMAIN before.wc \ {name} = DOMAIN after.wc \ {name}
    /\ \A n \in DOMAIN before.wc \ {name} : after.wc[n] = before.wc[n]

\* C29: a successful mutation changes only its subject in the View:
\* setBookmark leaves every other bookmark and every workspace registration
\* as it was, workspaceForget every other registration and every bookmark,
\* workspaceAdd every bookmark and every other workspace's working-copy
\* commit; none of them touches the remote bookmarks
C29_OnlyItsSubjectChanges ==
    /\ (SetBookmarkCalled /\ result = "ok")
         => /\ repo.wc = prev.wc
            /\ repo.remote = prev.remote
            /\ DOMAIN repo.bookmarks = DOMAIN prev.bookmarks
            /\ \A b \in DOMAIN prev.bookmarks \ {call.name.s} :
                   repo.bookmarks[b] = prev.bookmarks[b]
    /\ (call.op = "workspaceForget" /\ result = "ok")
         => /\ repo.bookmarks = prev.bookmarks
            /\ repo.remote = prev.remote
            /\ SameOtherWorkspaces(prev, repo, call.name.s)
    /\ (call.op = "workspaceAdd" /\ result = "ok")
         => /\ repo.bookmarks = prev.bookmarks
            /\ repo.remote = prev.remote
            /\ SameOtherWorkspaces(prev, repo, AddedName)

\* a workspace was added next to two others while a bookmark is conflicted
C29_Witness ==
    /\ call.op = "workspaceAdd"
    /\ result = "ok"
    /\ Cardinality(DOMAIN prev.wc) = 2
    /\ AddedName \notin DOMAIN prev.wc
    /\ Cardinality(DOMAIN repo.wc) = 3
    /\ \E b \in DOMAIN repo.bookmarks : repo.bookmarks[b].kind = "conflict"

\* C30: a workspaceAdd that fails with NotFound because one of its explicit
\* revisions does not resolve changes nothing: the files (a destination that
\* was absent is not created), the store, the operation log and the
\* handle's snapshot are as before the call
C30_UnresolvedParentNoEffect ==
    [][(/\ call'.op = "workspaceAdd"
        /\ ~call'.destination_path.null
        /\ ~call'.revision_ids.null
        /\ result' = "NotFound"
        /\ ResolveRevisionSpecs(store, repo, RevisionSpecs(call'.revision_ids.s))
               = <<NoCommit>>)
       => /\ fs' = fs
          /\ repo' = repo
          /\ store' = store
          /\ ops' = ops]_vars

====
